---------------------------- MODULE Spec2Model ----------------------------
(***************************************************************************)
(* RAGBOT_V2 backend: document ingestion (routes/upload.py), query         *)
(* dispatch (routes/query.py), collection-key derivation                   *)
(* (core/file_manager.py), embedding-existence caching                     *)
(* (core/vectorstore.py, utils/vector_store.py) and per-session            *)
(* conversation memory (core/memory_manager.py, utils/memory.py).          *)
(*                                                                         *)
(* Python strings are sequences of one-character strings, so that the      *)
(* string operations of the source (startswith, replace, lower, isalnum,   *)
(* splitext, slicing, concatenation) are computed, not assumed.            *)
(***************************************************************************)
EXTENDS Integers, Sequences, FiniteSets, TLC

(***************************************************************************)
(* String literals of the source and the document names, URLs and session  *)
(* identifiers used as inputs.                                             *)
(***************************************************************************)
URL_TAG == <<"[", "U", "R", "L", "]">>
URL_TAG_SP == <<"[", "U", "R", "L", "]", " ">>
EXT_PDF == <<".", "p", "d", "f">>
EXT_DOCX == <<".", "d", "o", "c", "x">>
EXT_DOC == <<".", "d", "o", "c">>
EXT_TXT == <<".", "t", "x", "t">>
EXT_CSV == <<".", "c", "s", "v">>
URL_PREFIX == <<"u", "r", "l", "_">>
HTTP == <<"h", "t", "t", "p", ":", "/", "/">>
HTTPS == <<"h", "t", "t", "p", "s", ":", "/", "/">>
MEMORY_SUFFIX == <<"_", "m", "e", "m", "o", "r", "y", ".", "j", "s", "o", "n">>
report_pdf == <<"r", "e", "p", "o", "r", "t", ".", "p", "d", "f">>
report_txt == <<"r", "e", "p", "o", "r", "t", ".", "t", "x", "t">>
My_Report_PDF == <<"M", "y", " ", "R", "e", "p", "o", "r", "t", ".", "P", "D", "F">>
my_report_pdf == <<"m", "y", "-", "r", "e", "p", "o", "r", "t", ".", "p", "d", "f">>
my_report_us_pdf == <<"m", "y", "_", "r", "e", "p", "o", "r", "t", ".", "p", "d", "f">>
v1_2_txt == <<"v", "1", ".", "2", ".", "t", "x", "t">>
report2_docx == <<"r", "e", "p", "o", "r", "t", "2", ".", "d", "o", "c", "x">>
sales_csv == <<"s", "a", "l", "e", "s", ".", "c", "s", "v">>
DATA_CSV == <<"D", "A", "T", "A", ".", "C", "S", "V">>
dot_pdf == <<".", "p", "d", "f">>
url_a == <<"h", "t", "t", "p", ":", "/", "/", "a", ".", "c", "o">>
url_a_csv == <<"h", "t", "t", "p", ":", "/", "/", "a", ".", "c", "o", "/", "d", ".", "c", "s", "v">>
url_bad == <<"f", "t", "p", ":", "/", "/", "a", ".", "c", "o">>
sess_s1 == <<"s", "1">>
sess_u_slash_1 == <<"u", "/", "1">>
sess_u_under_1 == <<"u", "_", "1">>

(***************************************************************************)
(* Python str primitives.                                                  *)
(***************************************************************************)
UpperCase == <<"A", "B", "C", "D", "E", "F", "G", "H", "I", "J", "K", "L", "M",
               "N", "O", "P", "Q", "R", "S", "T", "U", "V", "W", "X", "Y", "Z">>
LowerCase == <<"a", "b", "c", "d", "e", "f", "g", "h", "i", "j", "k", "l", "m",
               "n", "o", "p", "q", "r", "s", "t", "u", "v", "w", "x", "y", "z">>
Digits == <<"0", "1", "2", "3", "4", "5", "6", "7", "8", "9">>

Range(f) == {f[i] : i \in DOMAIN f}

\* str.startswith(prefix)
startswith(s, p) == Len(s) >= Len(p) /\ SubSeq(s, 1, Len(p)) = p

\* str.endswith(suffix)
endswith(s, p) == Len(s) >= Len(p) /\ SubSeq(s, Len(s) - Len(p) + 1, Len(s)) = p

\* str.replace(old, new): every non-overlapping occurrence, left to right
RECURSIVE replace(_, _, _)
replace(s, old, new) ==
    IF Len(s) < Len(old) \/ Len(old) = 0 THEN s
    ELSE IF startswith(s, old)
         THEN new \o replace(SubSeq(s, Len(old) + 1, Len(s)), old, new)
         ELSE <<Head(s)>> \o replace(Tail(s), old, new)

\* str.lower() on one character
lower_char(c) ==
    IF \E i \in 1..26 : UpperCase[i] = c
    THEN LowerCase[CHOOSE i \in 1..26 : UpperCase[i] = c]
    ELSE c

\* str.lower()
lower(s) == [i \in 1..Len(s) |-> lower_char(s[i])]

AlnumChars == Range(UpperCase) \cup Range(LowerCase) \cup Range(Digits)
DigitChars == Range(Digits)

\* str.isalnum() on one character (the inputs are ASCII)
isalnum(c) == c \in AlnumChars

\* str.isdigit() on one character
isdigit(c) == c \in DigitChars

\* str.rfind(ch) with 1-based positions; 0 when ch does not occur
rfind(s, ch) ==
    IF \E i \in 1..Len(s) : s[i] = ch
    THEN CHOOSE i \in 1..Len(s) : s[i] = ch /\ \A j \in (i + 1)..Len(s) : s[j] # ch
    ELSE 0

\* os.path.splitext(p): <<root, ext>>; leading dots of the last path
\* component do not start an extension
splitext(p) ==
    LET sepIndex == rfind(p, "/")
        dotIndex == rfind(p, ".")
    IN IF dotIndex > sepIndex
          /\ \E i \in (sepIndex + 1)..(dotIndex - 1) : p[i] # "."
       THEN <<SubSeq(p, 1, dotIndex - 1), SubSeq(p, dotIndex, Len(p))>>
       ELSE <<p, <<>>>>

(***************************************************************************)
(* hashlib.md5(url.encode()).hexdigest(): RFC 1321 computed on 32-bit      *)
(* words held as <<high 16 bits, low 16 bits>>.                            *)
(***************************************************************************)
\* the printable ASCII characters of codes 32..95
Printable == <<
    " ", "!", "\"", "#", "$", "%", "&", "'", "(", ")", "*", "+",
    ",", "-", ".", "/", "0", "1", "2", "3", "4", "5", "6", "7",
    "8", "9", ":", ";", "<", "=", ">", "?", "@", "A", "B", "C",
    "D", "E", "F", "G", "H", "I", "J", "K", "L", "M", "N", "O",
    "P", "Q", "R", "S", "T", "U", "V", "W", "X", "Y", "Z", "[",
    "\\", "]", "^", "_">>

\* the printable ASCII characters from code 97 on
PrintableHigh == <<
    "a", "b", "c", "d", "e", "f", "g", "h", "i", "j", "k", "l", "m",
    "n", "o", "p", "q", "r", "s", "t", "u", "v", "w", "x", "y", "z",
    "{", "|", "}", "~">>

\* str.encode() of one ASCII character
ord(c) ==
    IF \E i \in 1..Len(Printable) : Printable[i] = c
    THEN 31 + (CHOOSE i \in 1..Len(Printable) : Printable[i] = c)
    ELSE 96 + (CHOOSE i \in 1..Len(PrintableHigh) : PrintableHigh[i] = c)

RECURSIVE and16(_, _, _)
and16(x, y, n) ==
    IF n = 0 THEN 0
    ELSE (x % 2) * (y % 2) + 2 * and16(x \div 2, y \div 2, n - 1)

w_and(a, b) == <<and16(a[1], b[1], 16), and16(a[2], b[2], 16)>>
w_or(a, b) == <<a[1] + b[1] - and16(a[1], b[1], 16), a[2] + b[2] - and16(a[2], b[2], 16)>>
w_xor(a, b) == <<a[1] + b[1] - 2 * and16(a[1], b[1], 16),
                 a[2] + b[2] - 2 * and16(a[2], b[2], 16)>>
w_not(a) == <<65535 - a[1], 65535 - a[2]>>

\* addition modulo 2^32
w_add(a, b) ==
    LET lo == a[2] + b[2]
    IN <<(a[1] + b[1] + (lo \div 65536)) % 65536, lo % 65536>>

\* rotate left by s bits, 0 <= s < 32
w_rotl(a, s) ==
    LET w == IF s >= 16 THEN <<a[2], a[1]>> ELSE a
        r == s % 16
    IN <<((w[1] * (2 ^ r)) % 65536) + (w[2] \div (2 ^ (16 - r))),
         ((w[2] * (2 ^ r)) % 65536) + (w[1] \div (2 ^ (16 - r)))>>

\* per-round shift amounts
md5_s == <<
    7, 12, 17, 22, 7, 12, 17, 22, 7, 12, 17, 22, 7, 12, 17, 22,
    5, 9, 14, 20, 5, 9, 14, 20, 5, 9, 14, 20, 5, 9, 14, 20,
    4, 11, 16, 23, 4, 11, 16, 23, 4, 11, 16, 23, 4, 11, 16, 23,
    6, 10, 15, 21, 6, 10, 15, 21, 6, 10, 15, 21, 6, 10, 15, 21>>

\* floor(2^32 * abs(sin(i + 1)))
md5_K == <<
    <<55146, 42104>>, <<59591, 46934>>, <<9248, 28891>>, <<49597, 52974>>,
    <<62844, 4015>>, <<18311, 50730>>, <<43056, 17939>>, <<64838, 38145>>,
    <<27008, 39128>>, <<35652, 63407>>, <<65535, 23473>>, <<35164, 55230>>,
    <<27536, 4386>>, <<64920, 29075>>, <<42617, 17294>>, <<18868, 2081>>,
    <<63006, 9570>>, <<49216, 45888>>, <<9822, 23121>>, <<59830, 51114>>,
    <<54831, 4189>>, <<580, 5203>>, <<55457, 59009>>, <<59347, 64456>>,
    <<8673, 52710>>, <<49975, 2006>>, <<62677, 3463>>, <<17754, 5357>>,
    <<43491, 59653>>, <<64751, 41976>>, <<26479, 729>>, <<36138, 19594>>,
    <<65530, 14658>>, <<34673, 63105>>, <<28061, 24866>>, <<64997, 14348>>,
    <<42174, 59972>>, <<19422, 53161>>, <<63163, 19296>>, <<48831, 48240>>,
    <<10395, 32454>>, <<60065, 10234>>, <<54511, 12421>>, <<1160, 7429>>,
    <<55764, 53305>>, <<59099, 39397>>, <<8098, 31992>>, <<50348, 22117>>,
    <<62505, 8772>>, <<17194, 65431>>, <<43924, 9127>>, <<64659, 41017>>,
    <<25947, 22979>>, <<36620, 52370>>, <<65519, 62589>>, <<34180, 24017>>,
    <<28584, 32335>>, <<65068, 59104>>, <<41729, 17172>>, <<19976, 4513>>,
    <<63315, 32386>>, <<48442, 62005>>, <<10967, 53947>>, <<60294, 54161>>>>

\* message padding: 0x80, zeros up to 56 mod 64, bit length as 64-bit
\* little-endian (messages shorter than 8192 bytes)
md5_pad(bytes) ==
    LET n == Len(bytes)
        zeros == (55 - n) % 64
        bits == 8 * n
    IN bytes \o <<128>> \o [i \in 1..zeros |-> 0]
       \o <<bits % 256, (bits \div 256) % 256, 0, 0, 0, 0, 0, 0>>

\* the 16 little-endian words of the block starting after offset off
md5_block(p, off) ==
    [j \in 1..16 |-> <<p[off + 4 * j - 1] + 256 * p[off + 4 * j],
                       p[off + 4 * j - 3] + 256 * p[off + 4 * j - 2]>>]

md5_round(st, M, i) ==
    LET A == st[1]
        B == st[2]
        C == st[3]
        D == st[4]
        F == IF i < 16 THEN w_or(w_and(B, C), w_and(w_not(B), D))
             ELSE IF i < 32 THEN w_or(w_and(D, B), w_and(w_not(D), C))
             ELSE IF i < 48 THEN w_xor(B, w_xor(C, D))
             ELSE w_xor(C, w_or(B, w_not(D)))
        g == IF i < 16 THEN i
             ELSE IF i < 32 THEN (5 * i + 1) % 16
             ELSE IF i < 48 THEN (3 * i + 5) % 16
             ELSE (7 * i) % 16
        T == w_add(w_add(w_add(F, A), md5_K[i + 1]), M[g + 1])
    IN <<D, w_add(B, w_rotl(T, md5_s[i + 1])), B, C>>

RECURSIVE md5_rounds(_, _, _)
md5_rounds(st, M, i) ==
    IF i = 64 \/ Len(st) # 4 THEN st ELSE md5_rounds(md5_round(st, M, i), M, i + 1)

RECURSIVE md5_blocks(_, _, _)
md5_blocks(st, p, off) ==
    IF off >= Len(p) THEN st
    ELSE LET r == md5_rounds(st, md5_block(p, off), 0)
         IN md5_blocks(<<w_add(st[1], r[1]), w_add(st[2], r[2]),
                         w_add(st[3], r[3]), w_add(st[4], r[4])>>, p, off + 64)

\* the 16 digest bytes
md5_digest(s) ==
    LET st == md5_blocks(<<<<26437, 8961>>, <<61389, 43913>>,
                           <<39098, 56574>>, <<4146, 21622>>>>,
                         md5_pad([i \in 1..Len(s) |-> ord(s[i])]), 0)
    IN [i \in 1..16 |->
          LET w == st[((i - 1) \div 4) + 1]
              k == (i - 1) % 4
          IN IF k = 0 THEN w[2] % 256
             ELSE IF k = 1 THEN w[2] \div 256
             ELSE IF k = 2 THEN w[1] % 256
             ELSE w[1] \div 256]

HexDigits == <<"0", "1", "2", "3", "4", "5", "6", "7",
               "8", "9", "a", "b", "c", "d", "e", "f">>

\* hexdigest(): two lower-case hexadecimal characters per digest byte
hexdigest(d) ==
    [i \in 1..(2 * Len(d)) |->
        LET b == d[(i + 1) \div 2]
        IN IF i % 2 = 1 THEN HexDigits[(b \div 16) + 1] ELSE HexDigits[(b % 16) + 1]]

(***************************************************************************)
(* FileManager (backend/core/file_manager.py): pure functions of the       *)
(* document name.                                                          *)
(***************************************************************************)
\* type_map.get(ext, 'unknown') of get_document_type
type_map(ext) ==
    IF ext = EXT_PDF THEN "pdf"
    ELSE IF ext = EXT_DOCX THEN "docx"
    ELSE IF ext = EXT_DOC THEN "docx"
    ELSE IF ext = EXT_TXT THEN "txt"
    ELSE "unknown"

\* variant: the extension is looked up first, with an entry for .csv
get_document_type_by_extension(doc_name) ==
    LET ext == lower(splitext(doc_name)[2])
    IN IF ext = EXT_CSV THEN "csv"
       ELSE IF startswith(doc_name, URL_TAG) THEN "url"
       ELSE type_map(ext)

get_document_type(doc_name) ==
    IF startswith(doc_name, URL_TAG) THEN "url"
    ELSE type_map(lower(splitext(doc_name)[2]))

\* variant: the digest is cut to [:15]
get_collection_name_15(doc_name) ==
    IF startswith(doc_name, URL_TAG)
    THEN LET url == replace(doc_name, URL_TAG_SP, <<>>)
         IN URL_PREFIX \o SubSeq(hexdigest(md5_digest(url)), 1, 15)
    ELSE LET stripped == replace(replace(replace(replace(doc_name, EXT_PDF, <<>>),
                                                 EXT_DOCX, <<>>), EXT_DOC, <<>>), EXT_TXT, <<>>)
             cleaned == lower(replace(replace(stripped, <<" ">>, <<"_">>), <<"-">>, <<"_">>))
         IN SelectSeq(cleaned, LAMBDA c : isalnum(c) \/ c = "_")

\* variant: the final filter keeps c.isalpha() or c == '_'
get_collection_name_alpha(doc_name) ==
    IF startswith(doc_name, URL_TAG)
    THEN LET url == replace(doc_name, URL_TAG_SP, <<>>)
         IN URL_PREFIX \o SubSeq(hexdigest(md5_digest(url)), 1, 16)
    ELSE LET stripped == replace(replace(replace(replace(doc_name, EXT_PDF, <<>>),
                                                 EXT_DOCX, <<>>), EXT_DOC, <<>>), EXT_TXT, <<>>)
             cleaned == lower(replace(replace(stripped, <<" ">>, <<"_">>), <<"-">>, <<"_">>))
         IN SelectSeq(cleaned, LAMBDA c : (isalnum(c) /\ ~isdigit(c)) \/ c = "_")

get_collection_name(doc_name) ==
    IF startswith(doc_name, URL_TAG)
    THEN LET url == replace(doc_name, URL_TAG_SP, <<>>)
         IN URL_PREFIX \o SubSeq(hexdigest(md5_digest(url)), 1, 16)
    ELSE LET stripped == replace(replace(replace(replace(doc_name, EXT_PDF, <<>>),
                                                 EXT_DOCX, <<>>), EXT_DOC, <<>>), EXT_TXT, <<>>)
             cleaned == lower(replace(replace(stripped, <<" ">>, <<"_">>), <<"-">>, <<"_">>))
         IN SelectSeq(cleaned, LAMBDA c : isalnum(c) \/ c = "_")

get_source_path(doc_name) ==
    IF startswith(doc_name, URL_TAG)
    THEN replace(doc_name, URL_TAG_SP, <<>>)
    ELSE doc_name

\* CSVAgentService.is_csv_file
is_csv_file(filename) == endswith(lower(filename), EXT_CSV)

(***************************************************************************)
(* MemoryService.get_memory_file_path (backend/core/memory_manager.py).    *)
(***************************************************************************)
get_memory_file_path(collection_name, session_id) ==
    LET safe_session_id == replace(replace(session_id, <<"/">>, <<"_">>), <<"\\">>, <<"_">>)
    IN collection_name \o <<"_">> \o safe_session_id \o MEMORY_SUFFIX

(***************************************************************************)
(* Persistent state of the backend (the data/ and conversations/           *)
(* directories and the service singletons) and the last response.          *)
(***************************************************************************)
VARIABLES
    uploaded_docs,     \* data/uploaded_docs: file name -> content
    chroma_db,         \* data/chroma_db: directory name -> what it holds
    saved_urls,        \* data/saved_urls.txt: the lines, in file order
    conversations,     \* conversations/: memory file name -> its JSON text
    csv_agent_service, \* CSVAgentService of routes/query.py: the bound agent
    resp,              \* what the last operation returned and did
    uploads_ok,        \* history: documents whose upload returned status ok
    created,           \* history: keys under which create_vector_store succeeded
    append_run,        \* history: the appends made to a record since it was absent
    names,             \* the document names the clients of this run use, each with
                       \* its get_collection_name and get_document_type
    csv_database,      \* data/csv_database.db: table name -> its rows
    sql_agent_service, \* SQLAgentService: llm, db, current_agent, current_table_name
    requests           \* queries in flight: where each is in its memory steps

vars == <<uploaded_docs, chroma_db, saved_urls, conversations, csv_agent_service,
          resp, uploads_ok, created, append_run, names,
         csv_database, sql_agent_service, requests>>

None == <<"None">>

(***************************************************************************)
(* json.dump / json.load of utils/memory.py: a string goes to the file     *)
(* with its quotes and backslashes escaped and comes back unescaped; a     *)
(* message is written with the keys it has.                                *)
(***************************************************************************)
RECURSIVE json_escape(_)
json_escape(s) ==
    IF s = <<>> THEN <<>>
    ELSE (IF Head(s) = "\"" \/ Head(s) = "\\" THEN <<"\\", Head(s)>> ELSE <<Head(s)>>)
         \o json_escape(Tail(s))

RECURSIVE json_unescape(_)
json_unescape(s) ==
    IF s = <<>> THEN <<>>
    ELSE IF Head(s) = "\\" /\ Len(s) >= 2
         THEN <<s[2]>> \o json_unescape(SubSeq(s, 3, Len(s)))
         ELSE <<Head(s)>> \o json_unescape(Tail(s))

json_dump_message(m) ==
    IF "sources" \in DOMAIN m
    THEN [role |-> m.role, content |-> json_escape(m.content),
          sources |-> [i \in 1..Len(m.sources) |-> json_escape(m.sources[i])]]
    ELSE [role |-> m.role, content |-> json_escape(m.content)]

json_load_message(t) ==
    IF "sources" \in DOMAIN t
    THEN [role |-> t.role, content |-> json_unescape(t.content),
          sources |-> [i \in 1..Len(t.sources) |-> json_unescape(t.sources[i])]]
    ELSE [role |-> t.role, content |-> json_unescape(t.content)]

json_dump(messages) == [i \in 1..Len(messages) |-> json_dump_message(messages[i])]
json_load(text) == [i \in 1..Len(text) |-> json_load_message(text[i])]

(***************************************************************************)
(* ConversationMemory (utils/memory.py) on the conversations directory.    *)
(* The operations that write return [conv, raised].                        *)
(***************************************************************************)
\* what a file holds when the write stopped after open(memory_file, 'w')
\* emptied it: a text json.load does not accept
Truncated == <<[truncated |-> TRUE]>>

\* with open(self.memory_file, 'w') as f: json.dump(messages, f):
\* [conv, raised].  The write succeeds, or open raises and the file is as
\* it was, or the dump raises after open emptied the file.
write_file(conv, memory_file, messages, write) ==
    IF write = "open_fail" THEN [conv |-> conv, raised |-> TRUE]
    ELSE [conv |-> [p \in DOMAIN conv \cup {memory_file} |->
                      IF p # memory_file THEN conv[p]
                      ELSE IF write = "dump_fail" THEN Truncated
                      ELSE json_dump(messages)],
          raised |-> write = "dump_fail"]

\* variant: no except clause around the write
save_history_raising(conv, memory_file, messages, write) ==
    write_file(conv, memory_file, messages, write)

\* [conv, raised]: the exception of the write is printed and dropped
save_history(conv, memory_file, messages, write) ==
    [conv |-> write_file(conv, memory_file, messages, write).conv, raised |-> FALSE]

load_history(conv, memory_file) ==
    IF memory_file \notin DOMAIN conv THEN <<>>
    ELSE IF conv[memory_file] = Truncated THEN <<>>
    ELSE json_load(conv[memory_file])

\* variant: the record is overwritten with an empty list instead of removed
clear_history_truncate(conv, memory_file) ==
    IF memory_file \in DOMAIN conv
    THEN [p \in DOMAIN conv |-> IF p = memory_file THEN <<>> ELSE conv[p]]
    ELSE conv

clear_history(conv, memory_file) ==
    IF memory_file \in DOMAIN conv
    THEN [p \in DOMAIN conv \ {memory_file} |-> conv[p]]
    ELSE conv

\* variant: messages.insert(0, message)
add_message_front(conv, memory_file, role, content, sources, write) ==
    LET messages == load_history(conv, memory_file)
        message == IF sources # <<>>
                   THEN [role |-> role, content |-> content, sources |-> sources]
                   ELSE [role |-> role, content |-> content]
    IN save_history(conv, memory_file, <<message>> \o messages, write)

\* variant: the message is written without the messages read before
add_message_save_alone(conv, memory_file, messages, role, content, sources, write) ==
    LET message == IF sources # <<>>
                   THEN [role |-> role, content |-> content, sources |-> sources]
                   ELSE [role |-> role, content |-> content]
    IN save_history(conv, memory_file, <<message>>, write)

\* the second half of add_message: append to the messages read and save
add_message_save(conv, memory_file, messages, role, content, sources, write) ==
    LET message == IF sources # <<>>
                   THEN [role |-> role, content |-> content, sources |-> sources]
                   ELSE [role |-> role, content |-> content]
    IN save_history(conv, memory_file, Append(messages, message), write)

add_message(conv, memory_file, role, content, sources, write) ==
    add_message_save(conv, memory_file, load_history(conv, memory_file), role,
                     content, sources, write)

\* no query in flight
NoRequests == [at |-> <<>>, overlapped |-> FALSE]

(***************************************************************************)
(* MemoryService (backend/core/memory_manager.py).                         *)
(***************************************************************************)
load_memory(conv, collection_name, session_id) ==
    load_history(conv, get_memory_file_path(collection_name, session_id))

\* variant: only the messages of the user are persisted
save_message_questions(conv, collection_name, session_id, role, content, sources, write) ==
    IF role = "user"
    THEN add_message(conv, get_memory_file_path(collection_name, session_id),
                     role, content, sources, write)
    ELSE [conv |-> conv, raised |-> FALSE]

save_message(conv, collection_name, session_id, role, content, sources, write) ==
    add_message(conv, get_memory_file_path(collection_name, session_id),
                role, content, sources, write)

service_save_history(conv, collection_name, session_id, messages, write) ==
    save_history(conv, get_memory_file_path(collection_name, session_id), messages,
                 write)

\* variant: the state counts the exchanges, not the messages
get_memory_state_exchanges(conv, collection_name, session_id) ==
    [messages |-> Len(load_memory(conv, collection_name, session_id)) \div 2,
     session_id |-> session_id, collection |-> collection_name]

get_memory_state(conv, collection_name, session_id) ==
    [messages |-> Len(load_memory(conv, collection_name, session_id)),
     session_id |-> session_id,
     collection |-> collection_name]

\* history[-n:] if history else [], for n >= 0: Python reads -0 as 0, the
\* start of the list
get_recent_messages(conv, collection_name, session_id, n) ==
    LET history == load_memory(conv, collection_name, session_id)
        start == IF n = 0 THEN 1
                 ELSE IF n >= Len(history) THEN 1
                 ELSE Len(history) - n + 1
    IN IF history # <<>> THEN SubSeq(history, start, Len(history)) ELSE <<>>

clear_memory(conv, collection_name, session_id) ==
    clear_history(conv, get_memory_file_path(collection_name, session_id))

memory_exists(conv, collection_name, session_id) ==
    get_memory_file_path(collection_name, session_id) \in DOMAIN conv

(***************************************************************************)
(* FileManager (backend/core/file_manager.py) on the data directory.       *)
(***************************************************************************)
save_file(files, file_content, file_name) ==
    [f \in DOMAIN files \cup {file_name} |->
        IF f = file_name THEN file_content ELSE files[f]]

file_exists(files, file_name) == file_name \in DOMAIN files

\* str.strip()
RECURSIVE lstrip(_)
lstrip(s) == IF s # <<>> /\ Head(s) = " " THEN lstrip(Tail(s)) ELSE s

RECURSIVE rstrip(_)
rstrip(s) ==
    IF s # <<>> /\ s[Len(s)] = " " THEN rstrip(SubSeq(s, 1, Len(s) - 1)) ELSE s

strip(s) == rstrip(lstrip(s))

\* [line.strip() for line in f if line.strip()]
read_urls(urls) ==
    LET stripped == [i \in 1..Len(urls) |-> strip(urls[i])]
    IN SelectSeq(stripped, LAMBDA u : u # <<>>)

save_url(urls, url) ==
    IF url \notin Range(read_urls(urls)) THEN Append(urls, url) ELSE urls

\* the order of Python's str comparison
str_lt(a, b) ==
    LET n == IF Len(a) < Len(b) THEN Len(a) ELSE Len(b)
        D == {i \in 1..n : a[i] # b[i]}
    IN IF D = {} THEN Len(a) < Len(b)
       ELSE LET i == CHOOSE j \in D : \A k \in D : j <= k
            IN ord(a[i]) < ord(b[i])

\* sorted(files)
RECURSIVE sorted(_)
sorted(S) ==
    IF S = {} THEN <<>>
    ELSE LET m == CHOOSE x \in S : \A y \in S \ {x} : str_lt(x, y)
         IN <<m>> \o sorted(S \ {m})

get_all_documents(files, urls) ==
    LET listed == {f \in DOMAIN files :
                      \/ endswith(f, EXT_PDF) \/ endswith(f, EXT_DOCX)
                      \/ endswith(f, EXT_DOC) \/ endswith(f, EXT_TXT)}
        lines == read_urls(urls)
    IN sorted(listed) \o [i \in 1..Len(lines) |-> URL_TAG_SP \o lines[i]]

(***************************************************************************)
(* VectorStoreService (backend/core/vectorstore.py) and VectorStoreManager *)
(* (utils/vector_store.py) on the chroma directory.  chroma_db maps a      *)
(* directory name to [holds, content]: holds is "empty" (the directory     *)
(* alone), "db" (the files Chroma writes when it opens the directory) or   *)
(* "index" (the embedded chunks of content too).  os.path.join(chroma_dir, *)
(* '') is chroma_dir itself, which exists from the constructor on and      *)
(* lists every collection directory; the entry of the empty name stands    *)
(* for the files written into chroma_dir itself.                           *)
(***************************************************************************)
NoContent == <<>>

path_exists(db, collection_name) ==
    collection_name = <<>> \/ collection_name \in DOMAIN db

listdir_nonempty(db, collection_name) ==
    IF collection_name = <<>>
    THEN \E k \in DOMAIN db : k # <<>> \/ db[k].holds # "empty"
    ELSE db[collection_name].holds # "empty"

check_embeddings_exist(db, collection_name) ==
    path_exists(db, collection_name) /\ listdir_nonempty(db, collection_name)

put_dir(db, collection_name, holds, content) ==
    [k \in DOMAIN db \cup {collection_name} |->
        IF k = collection_name THEN [holds |-> holds, content |-> content] ELSE db[k]]

\* os.makedirs(collection_path, exist_ok=True)
makedirs(db, collection_name) ==
    IF path_exists(db, collection_name) THEN db
    ELSE put_dir(db, collection_name, "empty", NoContent)

\* DocumentProcessor.load_document with a given source_type: the types
\* that have a loader
has_loader(source_type) == source_type \in {"pdf", "docx", "txt", "url"}

\* VectorStoreManager.create_vector_store: [db, raised].  Chroma opens the
\* persistent directory (writing its database files) before it creates the
\* collection and embeds; it rejects an empty collection name.
create_vector_store(db, content, collection_name, outcome) ==
    LET made == makedirs(db, collection_name)
    IN IF outcome = "client_fail"
       THEN [db |-> made, raised |-> TRUE]
       ELSE IF outcome = "embed_fail" \/ collection_name = <<>>
       THEN [db |-> put_dir(made, collection_name, "db", NoContent), raised |-> TRUE]
       ELSE [db |-> put_dir(made, collection_name, "index", content), raised |-> FALSE]

\* VectorStoreManager.load_existing: [db, raised]; attaching to a directory
\* without database files writes them
load_existing(db, collection_name, outcome) ==
    LET opened == IF collection_name \in DOMAIN db
                     /\ db[collection_name].holds # "empty"
                  THEN db
                  ELSE put_dir(db, collection_name, "db", NoContent)
    IN IF outcome = "client_fail" THEN [db |-> db, raised |-> TRUE]
       ELSE [db |-> opened, raised |-> outcome = "load_fail" \/ collection_name = <<>>]

\* VectorStoreService.create_or_load_vectorstore:
\* [db, raised, embeddings_created, calls]
create_or_load_vectorstore(db, content, collection_name, source_type, outcome) ==
    IF check_embeddings_exist(db, collection_name)
    THEN LET l == load_existing(db, collection_name, outcome)
         IN [db |-> l.db, raised |-> l.raised, embeddings_created |-> FALSE,
             calls |-> <<"load_existing">>]
    ELSE IF ~has_loader(source_type) \/ outcome = "extract_fail"
    THEN [db |-> db, raised |-> TRUE, embeddings_created |-> FALSE,
          calls |-> <<"load_document">>]
    ELSE LET c == create_vector_store(db, content, collection_name, outcome)
         IN [db |-> c.db, raised |-> c.raised, embeddings_created |-> ~c.raised,
             calls |-> <<"load_document", "split_documents", "create_vector_store">>]

\* VectorStoreService.load_existing_vectorstore: [db, raised]
load_existing_vectorstore(db, collection_name, outcome) ==
    IF ~check_embeddings_exist(db, collection_name)
    THEN [db |-> db, raised |-> TRUE]
    ELSE load_existing(db, collection_name, outcome)

\* the page contents the retriever returns from a loaded store
retrieve(db, collection_name) ==
    IF collection_name \in DOMAIN db /\ db[collection_name].holds = "index"
    THEN <<db[collection_name].content>>
    ELSE <<>>

(***************************************************************************)
(* RAGChain.get_response (utils/rag_chain.py) behind RAGPipeline           *)
(* .get_answer_with_sources: [raised, answer, source_documents].  The      *)
(* retrieval and the model call are external; chat_history is accepted     *)
(* and not used.                                                           *)
(***************************************************************************)
ERROR_GENERATING == <<"E", "r", "r", "o", "r", " ", "g", "e", "n", "e", "r", "a", "t", "i", "n", "g", " ", "r", "e", "s", "p", "o", "n", "s", "e", ":", " ", "x">>
ERROR_CSV == <<"E", "r", "r", "o", "r", " ", "p", "r", "o", "c", "e", "s", "s", "i", "n", "g", " ", "C", "S", "V", " ", "q", "u", "e", "r", "y", ":", " ", "x">>
NO_ANSWER == <<"N", "o", " ", "a", "n", "s", "w", "e", "r", " ", "g", "e", "n", "e", "r", "a", "t", "e", "d">>

\* "\n\n".join(doc.page_content for doc in docs)
RECURSIVE format_docs(_)
format_docs(docs) ==
    IF docs = <<>> THEN <<>>
    ELSE IF Len(docs) = 1 THEN docs[1]
    ELSE docs[1] \o <<"\n", "\n">> \o format_docs(Tail(docs))

\* variant: the history is put in front of the question of the prompt
get_response_with_history(db, collection_name, question, chat_history, outcome, llm_answer) ==
    IF outcome = "retrieval_fail"
    THEN [raised |-> TRUE, retrieval_query |-> question, prompt |-> None,
          answer |-> <<>>, source_documents |-> <<>>]
    ELSE LET source_documents == retrieve(db, collection_name)
         IN [raised |-> FALSE,
             retrieval_query |-> question,
             prompt |-> [context |-> format_docs(source_documents),
                         question |-> <<chat_history, question>>],
             answer |-> IF outcome = "generation_fail" THEN ERROR_GENERATING
                        ELSE llm_answer,
             source_documents |-> source_documents]

\* retrieval_query is what the retriever is invoked with, prompt the values
\* that fill the fixed template; the retriever's exception leaves the
\* function, the chain's exception becomes the answer
get_response(db, collection_name, question, chat_history, outcome, llm_answer) ==
    IF outcome = "retrieval_fail"
    THEN [raised |-> TRUE, retrieval_query |-> question, prompt |-> None,
          answer |-> <<>>, source_documents |-> <<>>]
    ELSE LET source_documents == retrieve(db, collection_name)
         IN [raised |-> FALSE,
             retrieval_query |-> question,
             prompt |-> [context |-> format_docs(source_documents),
                         question |-> question],
             answer |-> IF outcome = "generation_fail" THEN ERROR_GENERATING
                        ELSE llm_answer,
             source_documents |-> source_documents]

(***************************************************************************)
(* RAGPipeline (backend/core/rag_pipeline.py): rag_chain is None until     *)
(* initialize_chain binds it to a loaded store.                            *)
(***************************************************************************)
initialize_chain(collection_name) == collection_name

\* RAGPipeline.query: [raised, error, response]
rag_query(rag_chain, db, question, chat_history, outcome, llm_answer) ==
    IF rag_chain = None
    THEN [raised |-> TRUE, error |-> "not_initialized",
          response |-> get_response(db, <<>>, question, chat_history,
                                    "retrieval_fail", llm_answer)]
    ELSE LET g == get_response(db, rag_chain, question, chat_history, outcome,
                               llm_answer)
         IN [raised |-> g.raised,
             error |-> IF g.raised THEN "retrieval" ELSE "none",
             response |-> g]

\* RAGPipeline.get_answer_with_sources: [raised, error, response, answer,
\* context_docs]
get_answer_with_sources(rag_chain, db, question, chat_history, outcome, llm_answer) ==
    LET q == rag_query(rag_chain, db, question, chat_history, outcome, llm_answer)
    IN [raised |-> q.raised, error |-> q.error, response |-> q.response,
        answer |-> q.response.answer,
        context_docs |-> q.response.source_documents]

(***************************************************************************)
(* CSVAgentService.query (backend/core/csv_agent_service.py) and           *)
(* CSVAgent.query (utils/csv_agent.py): [service, raised, answer].         *)
(***************************************************************************)
\* variant: the path is recorded as current although the agent is kept
initialize_agent_keep(service, csv_file_path) ==
    IF service.current_csv_path # csv_file_path
    THEN [service EXCEPT !.current_csv_path = csv_file_path]
    ELSE service

initialize_agent(service, csv_file_path) ==
    IF service.current_csv_path # csv_file_path
    THEN [current_agent |-> csv_file_path, current_csv_path |-> csv_file_path]
    ELSE service

\* invoked is the path the agent that ran was built for, built tells that
\* CSVAgent(csv_file_path) made a new agent
csv_agent_query(service, csv_file_path, question, outcome, llm_answer) ==
    IF outcome = "agent_fail" /\ service.current_csv_path # csv_file_path
    THEN [service |-> service, raised |-> TRUE, answer |-> NO_ANSWER,
          invoked |-> None, built |-> FALSE]
    ELSE LET bound == initialize_agent(service, csv_file_path)
         IN [service |-> bound, raised |-> FALSE,
             answer |-> IF outcome = "generation_fail" THEN ERROR_CSV ELSE llm_answer,
             invoked |-> bound.current_agent,
             built |-> bound.current_agent # service.current_agent]

(***************************************************************************)
(* The responses of the routes, with what the handler did: calls lists the *)
(* ingestion calls made, before is the number of messages the memory       *)
(* record held when the handler started, messages the count of the         *)
(* returned memory state, engine how the call of the answering engine      *)
(* ended with the retrieval request and prompt it issued, writes the       *)
(* outcomes of the memory writes made, n and recent the argument and the   *)
(* result of get_recent_messages.                                          *)
(***************************************************************************)
Response(op, doc, session_id) ==
    [op |-> op, doc |-> doc, session_id |-> session_id, status |-> 0,
     branch |-> "none", collection |-> <<>>, embeddings_created |-> FALSE,
     calls |-> <<>>, answer |-> <<>>, context |-> <<>>, before |-> 0,
     messages |-> 0, files_available |-> <<>>, question |-> <<>>,
     engine |-> "none", retrieval_query |-> <<>>, prompt |-> None,
     writes |-> <<>>, n |-> 0, recent |-> <<>>]

(***************************************************************************)
(* file_manager.get_collection_name and file_manager.get_document_type as  *)
(* the handlers call them: both are pure functions of the name, and the    *)
(* value is the one computed for the name when the run starts.             *)
(***************************************************************************)
collection_name_of(doc_name) == names[doc_name].collection_name
document_type_of(doc_name) == names[doc_name].document_type

(***************************************************************************)
(* routes/upload.py: upload_file.                                          *)
(***************************************************************************)
UploadFile(file_name, file_content, outcome) ==
    LET files == save_file(uploaded_docs, file_content, file_name)
        collection_name == collection_name_of(file_name)
        embeddings_exist == check_embeddings_exist(chroma_db, collection_name)
        doc_type == document_type_of(file_name)
        c == create_or_load_vectorstore(chroma_db, file_content, collection_name,
                                        doc_type, outcome)
        r == [Response("upload_file", file_name, <<>>) EXCEPT
                 !.collection = collection_name]
    IN /\ uploaded_docs' = files
       /\ IF embeddings_exist
          THEN /\ chroma_db' = chroma_db
               /\ resp' = [r EXCEPT !.status = 200, !.embeddings_created = FALSE,
                              !.files_available = get_all_documents(files, saved_urls)]
               /\ uploads_ok' = uploads_ok \cup {file_name}
               /\ created' = created
          ELSE /\ chroma_db' = c.db
               /\ resp' = IF c.raised
                          THEN [r EXCEPT !.status = 500, !.calls = c.calls]
                          ELSE [r EXCEPT !.status = 200, !.calls = c.calls,
                                   !.embeddings_created = c.embeddings_created,
                                   !.files_available = get_all_documents(files, saved_urls)]
               /\ uploads_ok' = IF c.raised THEN uploads_ok ELSE uploads_ok \cup {file_name}
               /\ created' = IF c.embeddings_created THEN created \cup {collection_name}
                             ELSE created
       /\ UNCHANGED <<saved_urls, conversations, csv_agent_service, append_run>>

(***************************************************************************)
(* routes/upload.py: upload_url.  The handler has one except clause, for   *)
(* Exception, so its own HTTPException(400) leaves it as a 500.            *)
(***************************************************************************)
UploadUrl(url, page_content, outcome) ==
    LET doc_name == URL_TAG_SP \o url
        collection_name == collection_name_of(doc_name)
        embeddings_exist == check_embeddings_exist(chroma_db, collection_name)
        c == create_or_load_vectorstore(chroma_db, page_content, collection_name,
                                        "url", outcome)
        urls == save_url(saved_urls, url)
        r == Response("upload_url", doc_name, <<>>)
    IN IF ~startswith(url, HTTP) /\ ~startswith(url, HTTPS)
       THEN /\ resp' = [r EXCEPT !.status = 500]
            /\ UNCHANGED <<uploaded_docs, chroma_db, saved_urls, conversations,
                           csv_agent_service, uploads_ok, created, append_run>>
       ELSE IF embeddings_exist
       THEN /\ resp' = [r EXCEPT !.status = 200, !.collection = collection_name,
                           !.embeddings_created = FALSE,
                           !.files_available = get_all_documents(uploaded_docs, saved_urls)]
            /\ uploads_ok' = uploads_ok \cup {doc_name}
            /\ UNCHANGED <<uploaded_docs, chroma_db, saved_urls, conversations,
                           csv_agent_service, created, append_run>>
       ELSE /\ chroma_db' = c.db
            /\ saved_urls' = IF c.raised THEN saved_urls ELSE urls
            /\ resp' = IF c.raised
                       THEN [r EXCEPT !.status = 500, !.collection = collection_name,
                                !.calls = c.calls]
                       ELSE [r EXCEPT !.status = 200, !.collection = collection_name,
                                !.calls = c.calls,
                                !.embeddings_created = c.embeddings_created,
                                !.files_available = get_all_documents(uploaded_docs, urls)]
            /\ uploads_ok' = IF c.raised THEN uploads_ok ELSE uploads_ok \cup {doc_name}
            /\ created' = IF c.embeddings_created THEN created \cup {collection_name}
                          ELSE created
            /\ UNCHANGED <<uploaded_docs, conversations, csv_agent_service, append_run>>

(***************************************************************************)
(* History of appends: the role and content of the messages appended, one  *)
(* after the other and with no other memory operation in between, to the   *)
(* record of one (collection, session) pair that was absent before the     *)
(* first of them.                                                          *)
(***************************************************************************)
NoRun == [active |-> FALSE, collection |-> <<>>, session_id |-> <<>>, messages |-> <<>>]

run_append(run, conv, collection_name, session_id, new_messages) ==
    IF run.active /\ run.collection = collection_name /\ run.session_id = session_id
    THEN [run EXCEPT !.messages = @ \o new_messages]
    ELSE IF ~memory_exists(conv, collection_name, session_id)
    THEN [active |-> TRUE, collection |-> collection_name, session_id |-> session_id,
          messages |-> new_messages]
    ELSE NoRun

(***************************************************************************)
(* routes/query.py: query_document.  HTTPException leaves the handler as   *)
(* raised; any other exception becomes a 500.                              *)
(***************************************************************************)
QueryDocument(question, selected_file, session_id, outcome, llm_answer, writes) ==
    LET collection_name == collection_name_of(selected_file)
        is_csv == document_type_of(selected_file) = "csv"
        r == [Response("query", selected_file, session_id) EXCEPT
                 !.collection = collection_name,
                 !.question = question,
                 !.before = Len(load_memory(conversations, collection_name, session_id)),
                 !.branch = IF is_csv THEN "csv" ELSE "rag"]
    IN IF is_csv
       THEN \* === CSV AGENT APPROACH ===
            LET csv_path == selected_file
                a == csv_agent_query(csv_agent_service, csv_path, question, outcome,
                                     llm_answer)
                s1 == save_message(conversations, collection_name, session_id,
                                   "user", question, <<>>, writes[1])
                s2 == save_message(s1.conv, collection_name, session_id,
                                   "assistant", a.answer, <<>>, writes[2])
                conv2 == s2.conv
            IN IF startswith(selected_file, URL_TAG)
               THEN /\ resp' = [r EXCEPT !.status = 400]
                    /\ UNCHANGED <<uploaded_docs, chroma_db, saved_urls, conversations,
                                   csv_agent_service, uploads_ok, created, append_run>>
               ELSE IF ~file_exists(uploaded_docs, selected_file)
               THEN /\ resp' = [r EXCEPT !.status = 404]
                    /\ UNCHANGED <<uploaded_docs, chroma_db, saved_urls, conversations,
                                   csv_agent_service, uploads_ok, created, append_run>>
               ELSE IF a.raised
               THEN /\ resp' = [r EXCEPT !.status = 500]
                    /\ UNCHANGED <<uploaded_docs, chroma_db, saved_urls, conversations,
                                   csv_agent_service, uploads_ok, created, append_run>>
               ELSE IF s1.raised \/ s2.raised
               THEN /\ csv_agent_service' = a.service
                    /\ conversations' = IF s1.raised THEN s1.conv ELSE s2.conv
                    /\ append_run' = NoRun
                    /\ resp' = [r EXCEPT !.status = 500, !.writes = writes]
                    /\ UNCHANGED <<uploaded_docs, chroma_db, saved_urls, uploads_ok,
                                   created>>
               ELSE /\ csv_agent_service' = a.service
                    /\ conversations' = conv2
                    /\ append_run' = IF writes = <<"ok", "ok">>
                                     THEN run_append(append_run, conversations,
                                            collection_name, session_id,
                                            <<[role |-> "user", content |-> question],
                                              [role |-> "assistant", content |-> a.answer]>>)
                                     ELSE NoRun
                    /\ resp' = [r EXCEPT !.status = 200, !.answer = a.answer,
                                   !.writes = writes,
                                   !.messages = get_memory_state(conv2, collection_name,
                                                                 session_id).messages]
                    /\ UNCHANGED <<uploaded_docs, chroma_db, saved_urls, uploads_ok,
                                   created>>
       ELSE \* === RAG APPROACH (for PDF, DOCX, TXT, URLs) ===
            LET l == load_existing_vectorstore(chroma_db, collection_name, outcome)
                chat_history == load_memory(conversations, collection_name, session_id)
                rag_chain == initialize_chain(collection_name)
                g == get_answer_with_sources(rag_chain, l.db, question, chat_history,
                                             outcome, llm_answer)
                source_contents == g.context_docs
                s1 == save_message(conversations, collection_name, session_id,
                                   "user", question, <<>>, writes[1])
                s2 == save_message(s1.conv, collection_name, session_id,
                                   "assistant", g.answer, source_contents, writes[2])
                conv2 == s2.conv
            IN IF ~check_embeddings_exist(chroma_db, collection_name)
               THEN /\ resp' = [r EXCEPT !.status = 404]
                    /\ UNCHANGED <<uploaded_docs, chroma_db, saved_urls, conversations,
                                   csv_agent_service, uploads_ok, created, append_run>>
               ELSE IF l.raised
               THEN /\ chroma_db' = l.db
                    /\ resp' = [r EXCEPT !.status = 500]
                    /\ UNCHANGED <<uploaded_docs, saved_urls, conversations,
                                   csv_agent_service, uploads_ok, created, append_run>>
               ELSE IF g.raised
               THEN /\ chroma_db' = l.db
                    /\ resp' = [r EXCEPT !.status = 500, !.engine = "raised",
                                   !.retrieval_query = g.response.retrieval_query]
                    /\ UNCHANGED <<uploaded_docs, saved_urls, conversations,
                                   csv_agent_service, uploads_ok, created, append_run>>
               ELSE IF s1.raised \/ s2.raised
               THEN /\ chroma_db' = l.db
                    /\ conversations' = IF s1.raised THEN s1.conv ELSE s2.conv
                    /\ append_run' = NoRun
                    /\ resp' = [r EXCEPT !.status = 500, !.engine = "returned",
                                   !.writes = writes]
                    /\ UNCHANGED <<uploaded_docs, saved_urls, csv_agent_service,
                                   uploads_ok, created>>
               ELSE /\ chroma_db' = l.db
                    /\ conversations' = conv2
                    /\ append_run' = IF writes = <<"ok", "ok">>
                                     THEN run_append(append_run, conversations,
                                            collection_name, session_id,
                                            <<[role |-> "user", content |-> question],
                                              [role |-> "assistant", content |-> g.answer]>>)
                                     ELSE NoRun
                    /\ resp' = [r EXCEPT !.status = 200, !.answer = g.answer,
                                   !.engine = "returned", !.writes = writes,
                                   !.retrieval_query = g.response.retrieval_query,
                                   !.prompt = g.response.prompt,
                                   !.context = source_contents,
                                   !.messages = get_memory_state(conv2, collection_name,
                                                                 session_id).messages]
                    /\ UNCHANGED <<uploaded_docs, saved_urls, csv_agent_service,
                                   uploads_ok, created>>

(***************************************************************************)
(* routes/query.py: clear_memory.                                          *)
(***************************************************************************)
ClearMemory(selected_file, session_id) ==
    LET collection_name == collection_name_of(selected_file)
    IN /\ conversations' = clear_memory(conversations, collection_name, session_id)
       /\ append_run' = NoRun
       /\ resp' = [Response("clear_memory", selected_file, session_id) EXCEPT
                      !.status = 200, !.collection = collection_name,
                      !.before = Len(load_memory(conversations, collection_name,
                                                 session_id))]
       /\ UNCHANGED <<uploaded_docs, chroma_db, saved_urls, csv_agent_service,
                      uploads_ok, created>>

(***************************************************************************)
(* SQLiteManager (backend/core/sqlite_manager.py): the CSV database as     *)
(* table name -> rows.                                                     *)
(***************************************************************************)
TABLE_PREFIX == <<"t", "a", "b", "l", "e", "_">>
CSV_TABLE == <<"c", "s", "v", "_", "t", "a", "b", "l", "e">>

\* re.sub(r'[^A-Za-z0-9_]', '_', base_name)
sub_non_word(s) == [i \in 1..Len(s) |-> IF isalnum(s[i]) \/ s[i] = "_" THEN s[i] ELSE "_"]

\* str.strip('_')
strip_underscores(s) ==
    LET keep == {i \in 1..Len(s) : s[i] # "_"}
    IN IF keep = {} THEN <<>>
       ELSE SubSeq(s, CHOOSE i \in keep : \A j \in keep : i <= j,
                      CHOOSE i \in keep : \A j \in keep : j <= i)

\* variant: a name starting with a digit is left as it is
sanitize_table_name_unprefixed(filename) ==
    LET base_name == splitext(filename)[1]
        sanitized == strip_underscores(sub_non_word(base_name))
        named == IF sanitized = <<>> THEN CSV_TABLE ELSE sanitized
    IN lower(named)

sanitize_table_name(filename) ==
    LET base_name == splitext(filename)[1]
        sanitized == strip_underscores(sub_non_word(base_name))
        prefixed == IF sanitized = <<>> \/ isdigit(sanitized[1])
                    THEN TABLE_PREFIX \o sanitized
                    ELSE sanitized
        named == IF prefixed = <<>> THEN CSV_TABLE ELSE prefixed
    IN lower(named)

table_exists(database, table_name) == table_name \in DOMAIN database

\* os.path.basename
basename(path) == SubSeq(path, rfind(path, "/") + 1, Len(path))

\* df.to_sql(table_name, conn, if_exists='replace')
to_sql(database, table_name, rows) ==
    [n \in DOMAIN database \cup {table_name} |->
        IF n = table_name THEN rows ELSE database[n]]

\* variant: the CSV is imported whether or not the table exists
load_csv_to_table_replace(database, files, csv_file_path, table_name, outcome) ==
    LET name == IF table_name = None
                THEN sanitize_table_name(basename(csv_file_path))
                ELSE table_name
    IN IF ~file_exists(files, csv_file_path)
       THEN [database |-> database, raised |-> TRUE, error |-> "FileNotFoundError",
             returned |-> None, calls |-> <<>>]
       ELSE [database |-> to_sql(database, name, files[csv_file_path]),
             raised |-> FALSE, error |-> "none", returned |-> name,
             calls |-> <<"read_csv", "to_sql">>]

\* [database, raised, error, returned, calls]; outcome names the call that
\* fails: reading the CSV, or the insert, which then leaves the table it
\* made without rows ("insert_fail") or leaves no table ("insert_undone")
load_csv_to_table(database, files, csv_file_path, table_name, outcome) ==
    LET name == IF table_name = None
                THEN sanitize_table_name(basename(csv_file_path))
                ELSE table_name
    IN IF ~file_exists(files, csv_file_path)
       THEN [database |-> database, raised |-> TRUE, error |-> "FileNotFoundError",
             returned |-> None, calls |-> <<>>]
       ELSE IF table_exists(database, name)
       THEN [database |-> database, raised |-> FALSE, error |-> "none",
             returned |-> name, calls |-> <<>>]
       ELSE IF outcome = "read_fail"
       THEN [database |-> database, raised |-> TRUE, error |-> "read_csv",
             returned |-> None, calls |-> <<"read_csv">>]
       ELSE IF outcome = "insert_fail"
       THEN [database |-> to_sql(database, name, <<>>), raised |-> TRUE,
             error |-> "to_sql", returned |-> None,
             calls |-> <<"read_csv", "to_sql">>]
       ELSE IF outcome = "insert_undone"
       THEN [database |-> database, raised |-> TRUE, error |-> "to_sql",
             returned |-> None, calls |-> <<"read_csv", "to_sql">>]
       ELSE [database |-> to_sql(database, name, files[csv_file_path]),
             raised |-> FALSE, error |-> "none", returned |-> name,
             calls |-> <<"read_csv", "to_sql">>]

(***************************************************************************)
(* SQLAgentService (backend/core/sql_agent_service.py).  llm is set once   *)
(* the model client is made, db and current_agent name the table they are  *)
(* bound to.                                                               *)
(***************************************************************************)
SQLAgentService ==
    [current_agent |-> None, current_table_name |-> None, db |-> None, llm |-> None]

TABLE_NOT_FOUND == <<"T", "a", "b", "l", "e", " ", "n", "o", "t", " ", "f", "o", "u", "n", "d">>
ERROR_SQL == <<"E", "r", "r", "o", "r", " ", "p", "r", "o", "c", "e", "s", "s", "i", "n", "g", " ", "S", "Q", "L", " ", "q", "u", "e", "r", "y", ":", " ">>
ERROR_NO_TABLE == <<"E", "r", "r", "o", "r", ":", " ", "T", "a", "b", "l", "e", " ", "d", "o", "e", "s", " ", "n", "o", "t", " ", "e", "x", "i", "s", "t", " ", "i", "n", " ", "t", "h", "e", " ", "d", "a", "t", "a", "b", "a", "s", "e", ".">>

\* variant: the table is recorded as current before the agent is created
get_agent_for_table_early(service, table_name, outcome) ==
    IF service.current_table_name = table_name
    THEN [service |-> service, raised |-> FALSE, built |-> FALSE]
    ELSE IF service.llm = None /\ outcome = "llm_fail"
    THEN [service |-> service, raised |-> TRUE, built |-> FALSE]
    ELSE IF outcome = "db_fail"
    THEN [service |-> [service EXCEPT !.llm = <<"set">>], raised |-> TRUE,
          built |-> FALSE]
    ELSE IF outcome = "create_fail"
    THEN [service |-> [service EXCEPT !.llm = <<"set">>, !.db = table_name,
                                      !.current_table_name = table_name],
          raised |-> TRUE, built |-> FALSE]
    ELSE [service |-> [service EXCEPT !.llm = <<"set">>, !.db = table_name,
                                      !.current_agent = table_name,
                                      !.current_table_name = table_name],
          raised |-> FALSE, built |-> TRUE]

\* [service, raised, built]; outcome names the call that fails when it is
\* made, built tells that create_sql_agent returned a new agent
get_agent_for_table(service, table_name, outcome) ==
    IF service.current_table_name = table_name
    THEN [service |-> service, raised |-> FALSE, built |-> FALSE]
    ELSE IF service.llm = None /\ outcome = "llm_fail"
    THEN [service |-> service, raised |-> TRUE, built |-> FALSE]
    ELSE IF outcome = "db_fail"
    THEN [service |-> [service EXCEPT !.llm = <<"set">>], raised |-> TRUE,
          built |-> FALSE]
    ELSE IF outcome = "create_fail"
    THEN [service |-> [service EXCEPT !.llm = <<"set">>, !.db = table_name],
          raised |-> TRUE, built |-> FALSE]
    ELSE [service |-> [service EXCEPT !.llm = <<"set">>, !.db = table_name,
                                      !.current_agent = table_name,
                                      !.current_table_name = table_name],
          raised |-> FALSE, built |-> TRUE]

\* the body of SQLAgentService.query: [service, raised, result, invoked,
\* built], invoked the table the agent that ran was bound to
sql_query_body(service, database, table_name, question, outcome, llm_answer) ==
    LET g == get_agent_for_table(service, table_name, outcome)
        none == [answer |-> <<>>, source |-> "sql_agent", table |-> table_name,
                 error |-> None]
    IN IF outcome = "exists_fail"
       THEN [service |-> service, raised |-> TRUE, result |-> none, invoked |-> None,
             built |-> FALSE]
       ELSE IF ~table_exists(database, table_name)
       THEN [service |-> service, raised |-> FALSE,
             result |-> [none EXCEPT !.answer = ERROR_NO_TABLE,
                                     !.error = TABLE_NOT_FOUND],
             invoked |-> None, built |-> FALSE]
       ELSE IF g.raised
       THEN [service |-> g.service, raised |-> TRUE, result |-> none,
             invoked |-> None, built |-> FALSE]
       ELSE IF outcome = "invoke_fail"
       THEN [service |-> g.service, raised |-> TRUE, result |-> none,
             invoked |-> g.service.current_agent, built |-> g.built]
       ELSE [service |-> g.service, raised |-> FALSE,
             result |-> [none EXCEPT !.answer = llm_answer],
             invoked |-> g.service.current_agent, built |-> g.built]

\* variant: no except clause around the body
sql_query_raising(service, database, table_name, question, outcome, llm_answer) ==
    sql_query_body(service, database, table_name, question, outcome, llm_answer)

\* SQLAgentService.query: an exception of the body becomes an error answer
sql_query(service, database, table_name, question, outcome, llm_answer) ==
    LET b == sql_query_body(service, database, table_name, question, outcome,
                            llm_answer)
    IN IF b.raised
       THEN [b EXCEPT !.raised = FALSE,
                      !.result = [b.result EXCEPT !.answer = ERROR_SQL \o <<outcome>>,
                                                  !.error = <<outcome>>]]
       ELSE b

get_table_name_for_file(file_name) == sanitize_table_name(file_name)


(***************************************************************************)
(* Inputs and bounds.                                                      *)
(***************************************************************************)
\* messages one memory record holds under Spec
MaxMessages == 2

FileNames == {report_pdf, report_txt, My_Report_PDF, my_report_pdf, my_report_us_pdf,
              report2_docx, v1_2_txt, sales_csv, DATA_CSV, dot_pdf}
Urls == {url_a, url_a_csv, url_bad}
DocNames == FileNames \cup {URL_TAG_SP \o u : u \in Urls}
\* the document names one run works with
Scenarios == {{report_pdf, report_txt},
              {My_Report_PDF, my_report_pdf},
              {my_report_pdf, my_report_us_pdf},
              {sales_csv, URL_TAG_SP \o url_a_csv},
              {DATA_CSV, v1_2_txt},
              {dot_pdf, report_pdf},
              {report_pdf, report2_docx},
              {URL_TAG_SP \o url_a, URL_TAG_SP \o url_bad}}
Sessions == {sess_s1}
Questions == {<<"w", "h", "y", " ", "\"", "x", "\\", "y", "\"", "?">>}
Answers == {<<"4", "2">>}
Contents == {<<"A">>, <<"B", "\"">>}
\* the outcomes of the two memory writes of one query: both done, the file
\* not opened for the first, the second failing after the file was emptied,
\* neither file opened
WriteRuns ==
    {<<"ok", "ok">>, <<"open_fail", "ok">>, <<"ok", "dump_fail">>,
     <<"open_fail", "open_fail">>}

IngestOutcomes == {"ok", "extract_fail", "client_fail", "embed_fail"}
QueryOutcomes == {"ok", "client_fail", "load_fail", "retrieval_fail", "generation_fail",
                  "agent_fail"}

url_of(doc_name) == SubSeq(doc_name, Len(URL_TAG_SP) + 1, Len(doc_name))

Init ==
    /\ uploaded_docs = <<>>
    /\ chroma_db = <<>>
    /\ saved_urls = <<>>
    /\ conversations = <<>>
    /\ csv_agent_service = [current_agent |-> None, current_csv_path |-> None]
    /\ resp = Response("none", <<>>, <<>>)
    /\ uploads_ok = {}
    /\ created = {}
    /\ append_run = NoRun
    /\ csv_database = <<>>
    /\ sql_agent_service = SQLAgentService
    /\ requests = NoRequests
    /\ names \in {[d \in D |-> [collection_name |-> get_collection_name(d),
                              document_type |-> get_document_type(d)]] : D \in Scenarios}

upload_file ==
    \E file_name \in DOMAIN names \cap FileNames, file_content \in Contents,
       outcome \in IngestOutcomes :
        /\ UploadFile(file_name, file_content, outcome)
        /\ UNCHANGED <<names, requests, csv_database, sql_agent_service>>

upload_url ==
    \E doc_name \in DOMAIN names \ FileNames, page_content \in Contents,
       outcome \in IngestOutcomes :
        /\ UploadUrl(url_of(doc_name), page_content, outcome)
        /\ UNCHANGED <<names, requests, csv_database, sql_agent_service>>

\* the two memory writes of the query succeed here; SpecWrites has them fail
query_document ==
    \E question \in Questions, selected_file \in DOMAIN names, session_id \in Sessions,
       outcome \in QueryOutcomes, llm_answer \in Answers :
        /\ Len(load_memory(conversations, collection_name_of(selected_file),
                           session_id)) + 2 <= MaxMessages
        /\ QueryDocument(question, selected_file, session_id, outcome, llm_answer,
                         <<"ok", "ok">>)
        /\ UNCHANGED <<names, requests, csv_database, sql_agent_service>>

clear_memory_route ==
    \E selected_file \in DOMAIN names, session_id \in Sessions :
        /\ ClearMemory(selected_file, session_id)
        /\ UNCHANGED <<names, requests, csv_database, sql_agent_service>>

Next == upload_file \/ upload_url \/ query_document \/ clear_memory_route

Spec == Init /\ [][Next]_vars

(***************************************************************************)
(* The handlers with the memory writes of a query failing, on one          *)
(* document and with a longer conversation.                                *)
(***************************************************************************)
\* the number of messages one conversation record may reach
MaxHistory == 4

InitWrites ==
    /\ uploaded_docs = <<>>
    /\ chroma_db = <<>>
    /\ saved_urls = <<>>
    /\ conversations = <<>>
    /\ csv_agent_service = [current_agent |-> None, current_csv_path |-> None]
    /\ resp = Response("none", <<>>, <<>>)
    /\ uploads_ok = {}
    /\ created = {}
    /\ append_run = NoRun
    /\ csv_database = <<>>
    /\ sql_agent_service = SQLAgentService
    /\ requests = NoRequests
    /\ names = [d \in {report_txt} |->
                  [collection_name |-> get_collection_name(d),
                   document_type |-> get_document_type(d)]]

query_document_writes ==
    \E question \in Questions, selected_file \in DOMAIN names, session_id \in Sessions,
       outcome \in QueryOutcomes, llm_answer \in Answers, writes \in WriteRuns :
        /\ Len(load_memory(conversations, collection_name_of(selected_file),
                           session_id)) + 2 <= MaxHistory
        /\ QueryDocument(question, selected_file, session_id, outcome, llm_answer,
                         writes)
        /\ UNCHANGED <<names, requests, csv_database, sql_agent_service>>

NextWrites == upload_file \/ query_document_writes \/ clear_memory_route

SpecWrites == InitWrites /\ [][NextWrites]_vars

(***************************************************************************)
(* The memory service on its own: callers of MemoryService append to,      *)
(* overwrite and clear the records of several (collection, session) pairs. *)
(***************************************************************************)
\* messages held by all memory records together
MaxStored == 3

key_report == <<"r", "e", "p", "o", "r", "t">>
key_report_u == <<"r", "e", "p", "o", "r", "t", "_", "u">>
sess_1 == <<"1">>
MemKeys == {key_report, key_report_u}
MemSessions == {sess_u_slash_1, sess_u_under_1, sess_1}
msg_hi == [role |-> "user", content |-> <<"h", "i">>, sources |-> <<>>]
msg_quoted == [role |-> "assistant", content |-> <<"a", "\"", "\\">>, sources |-> <<>>]
msg_sourced == [role |-> "assistant", content |-> <<"o", "k">>, sources |-> <<<<"A">>>>]
MemMessages == {msg_hi, msg_quoted, msg_sourced}
MemHistories == {<<>>, <<[role |-> "user", content |-> <<"h", "i">>]>>}

RECURSIVE stored(_, _)
stored(conv, files) ==
    IF files = {} THEN 0
    ELSE LET p == CHOOSE q \in files : TRUE
         IN Len(conv[p]) + stored(conv, files \ {p})

MemoryResponse(op, conv, collection_name, session_id) ==
    [Response(op, <<>>, session_id) EXCEPT
        !.status = 200, !.collection = collection_name,
        !.before = Len(load_memory(conversations, collection_name, session_id)),
        !.messages = get_memory_state(conv, collection_name, session_id).messages]

InitMemory ==
    /\ Init
    /\ DOMAIN names = {report_pdf, report_txt}

save_message_call ==
    \E collection_name \in MemKeys, session_id \in MemSessions, m \in MemMessages :
        LET conv == save_message(conversations, collection_name, session_id,
                                 m.role, m.content, m.sources, "ok").conv
        IN /\ stored(conversations, DOMAIN conversations) < MaxStored
           /\ conversations' = conv
           /\ append_run' = run_append(append_run, conversations, collection_name,
                                session_id, <<[role |-> m.role, content |-> m.content]>>)
           /\ resp' = MemoryResponse("save_message", conv, collection_name, session_id)
           /\ UNCHANGED <<uploaded_docs, chroma_db, saved_urls, csv_agent_service,
                          uploads_ok, created, names, requests, csv_database,
                          sql_agent_service>>

save_history_call ==
    \E collection_name \in MemKeys, session_id \in MemSessions,
       messages \in MemHistories :
        LET conv == service_save_history(conversations, collection_name, session_id,
                                         messages, "ok").conv
        IN /\ stored(conv, DOMAIN conv) <= MaxStored
           /\ conversations' = conv
           /\ append_run' = NoRun
           /\ resp' = MemoryResponse("save_history", conv, collection_name, session_id)
           /\ UNCHANGED <<uploaded_docs, chroma_db, saved_urls, csv_agent_service,
                          uploads_ok, created, names, requests, csv_database,
                          sql_agent_service>>

clear_memory_call ==
    \E collection_name \in MemKeys, session_id \in MemSessions :
        LET conv == clear_memory(conversations, collection_name, session_id)
        IN /\ conversations' = conv
           /\ append_run' = NoRun
           /\ resp' = MemoryResponse("clear_memory", conv, collection_name, session_id)
           /\ UNCHANGED <<uploaded_docs, chroma_db, saved_urls, csv_agent_service,
                          uploads_ok, created, names, requests, csv_database,
                          sql_agent_service>>

NextMemory == save_message_call \/ save_history_call \/ clear_memory_call

SpecMemory == InitMemory /\ [][NextMemory]_vars

(***************************************************************************)
(* One memory record that is appended to and whose recent messages are     *)
(* read.                                                                   *)
(***************************************************************************)
\* the largest number of recent messages asked for
MaxRecent == 2
\* messages the record may hold
MaxRecord == 3

append_message_call ==
    \E m \in MemMessages :
        LET conv == save_message(conversations, key_report, sess_1, m.role, m.content,
                                 m.sources, "ok").conv
        IN /\ Len(load_memory(conversations, key_report, sess_1)) < MaxRecord
           /\ conversations' = conv
           /\ append_run' = NoRun
           /\ resp' = MemoryResponse("save_message", conv, key_report, sess_1)
           /\ UNCHANGED <<uploaded_docs, chroma_db, saved_urls, csv_agent_service,
                          uploads_ok, created, names, requests, csv_database,
                          sql_agent_service>>

get_recent_messages_call ==
    \E n \in 0..MaxRecent :
        /\ resp' = [MemoryResponse("get_recent_messages", conversations, key_report,
                                   sess_1) EXCEPT
                       !.n = n,
                       !.recent = get_recent_messages(conversations, key_report,
                                                      sess_1, n)]
        /\ UNCHANGED <<uploaded_docs, chroma_db, saved_urls, conversations,
                       csv_agent_service, uploads_ok, created, append_run, names, requests,
                       csv_database, sql_agent_service>>

NextRecent == append_message_call \/ get_recent_messages_call

SpecRecent == InitMemory /\ [][NextRecent]_vars

(***************************************************************************)
(* The tabular store and its agent driven directly: CSV files are put in   *)
(* the uploads directory, loaded into tables and queried.                  *)
(***************************************************************************)
sales_2024_csv == <<"2", "0", "2", "4", " ", "s", "a", "l", "e", "s", ".", "c", "s", "v">>
under_a_csv == <<"_", "a", ".", "c", "s", "v">>
a_csv == <<"a", ".", "c", "s", "v">>
data_1_csv == <<"d", "a", "t", "a", " ", "(", "1", ")", ".", "c", "s", "v">>
paren_1_data_csv == <<"(", "1", ")", " ", "d", "a", "t", "a", ".", "c", "s", "v">>
dashes_csv == <<"-", "-", ".", "c", "s", "v">>
My_File_csv == <<"M", "y", " ", "F", "i", "l", "e", ".", "c", "s", "v">>
table_sales == <<"s", "a", "l", "e", "s">>
CsvFiles == {sales_csv, a_csv}
CsvNames == CsvFiles \cup {under_a_csv, sales_2024_csv, data_1_csv, paren_1_data_csv,
                           dashes_csv, My_File_csv, DATA_CSV}
TableNames == {None, table_sales}
\* the rows of each CSV file
csv_rows(file_name) == IF file_name = sales_csv THEN <<"east", "west">> ELSE <<"x">>
LoadOutcomes == {"ok", "read_fail", "insert_fail", "insert_undone"}
CsvOutcomes == {"ok", "agent_fail", "generation_fail"}
SqlOutcomes == {"ok", "exists_fail", "llm_fail", "db_fail", "create_fail",
                "invoke_fail"}

SqlResponse(op) ==
    [op |-> op, file |-> <<>>, table |-> None, target |-> <<>>, raised |-> FALSE,
     returned |-> None, calls |-> <<>>,
     result |-> [answer |-> <<>>, source |-> "none", table |-> None, error |-> None],
     invoked |-> None, built |-> FALSE,
     outcome |-> "none"]

InitSql ==
    /\ uploaded_docs = <<>>
    /\ chroma_db = <<>>
    /\ saved_urls = <<>>
    /\ conversations = <<>>
    /\ csv_agent_service = [current_agent |-> None, current_csv_path |-> None]
    /\ resp = SqlResponse("none")
    /\ uploads_ok = {}
    /\ created = {}
    /\ append_run = NoRun
    /\ names = <<>>
    /\ csv_database = <<>>
    /\ sql_agent_service = SQLAgentService
    /\ requests = NoRequests

sql_unchanged ==
    UNCHANGED <<chroma_db, saved_urls, conversations, uploads_ok, created,
                append_run, names, requests>>

\* a CSV file is written to the uploads directory
save_csv_file ==
    \E file_name \in CsvFiles :
        /\ uploaded_docs' = save_file(uploaded_docs, csv_rows(file_name), file_name)
        /\ resp' = [SqlResponse("save_file") EXCEPT !.file = file_name]
        /\ UNCHANGED <<csv_database, sql_agent_service, csv_agent_service>>
        /\ sql_unchanged

load_csv_to_table_call ==
    \E csv_file_path \in CsvFiles, table_name \in TableNames, outcome \in LoadOutcomes :
        LET l == load_csv_to_table(csv_database, uploaded_docs, csv_file_path,
                                   table_name, outcome)
        IN /\ csv_database' = l.database
           /\ resp' = [SqlResponse("load_csv_to_table") EXCEPT
                          !.file = csv_file_path,
                          !.table = table_name,
                          !.target = IF table_name = None
                                     THEN sanitize_table_name(basename(csv_file_path))
                                     ELSE table_name,
                          !.raised = l.raised,
                          !.returned = l.returned,
                          !.calls = l.calls,
                          !.outcome = outcome]
           /\ UNCHANGED <<uploaded_docs, sql_agent_service, csv_agent_service>>
           /\ sql_unchanged

get_table_name_for_file_call ==
    \E file_name \in CsvNames :
        /\ resp' = [SqlResponse("get_table_name_for_file") EXCEPT
                       !.file = file_name,
                       !.returned = get_table_name_for_file(file_name)]
        /\ UNCHANGED <<uploaded_docs, csv_database, sql_agent_service,
                       csv_agent_service>>
        /\ sql_unchanged

sql_query_call ==
    \E file_name \in CsvFiles, question \in Questions, outcome \in SqlOutcomes,
       llm_answer \in Answers :
        LET table_name == get_table_name_for_file(file_name)
            r == sql_query(sql_agent_service, csv_database, table_name, question,
                           outcome, llm_answer)
        IN /\ sql_agent_service' = r.service
           /\ resp' = [SqlResponse("query") EXCEPT
                          !.file = file_name,
                          !.target = table_name,
                          !.raised = r.raised,
                          !.result = r.result,
                          !.invoked = r.invoked,
                          !.built = r.built,
                          !.outcome = outcome]
           /\ UNCHANGED <<uploaded_docs, csv_database, csv_agent_service>>
           /\ sql_unchanged

\* CSVAgentService.query on a file of the uploads directory; building the
\* agent reads the file and fails when it is not there
csv_query_call ==
    \E csv_file_path \in CsvFiles, question \in Questions, outcome \in CsvOutcomes,
       llm_answer \in Answers :
        LET r == csv_agent_query(csv_agent_service, csv_file_path, question,
                                 IF file_exists(uploaded_docs, csv_file_path)
                                 THEN outcome ELSE "agent_fail",
                                 llm_answer)
        IN /\ csv_agent_service' = r.service
           /\ resp' = [SqlResponse("csv_query") EXCEPT
                          !.file = csv_file_path,
                          !.target = csv_file_path,
                          !.raised = r.raised,
                          !.result = [@ EXCEPT !.answer = r.answer,
                                               !.source = "csv_agent"],
                          !.invoked = r.invoked,
                          !.built = r.built,
                          !.outcome = outcome]
           /\ UNCHANGED <<uploaded_docs, csv_database, sql_agent_service>>
           /\ sql_unchanged

NextSql ==
    save_csv_file \/ load_csv_to_table_call \/ get_table_name_for_file_call
        \/ sql_query_call \/ csv_query_call

SpecSql == InitSql /\ [][NextSql]_vars

(***************************************************************************)
(* The URL registry driven directly: save_url is called with addresses as  *)
(* the clients send them.                                                  *)
(***************************************************************************)
\* lines the registry file may reach
MaxUrls == 4

url_a_sp == url_a \o <<" ">>
sp_url_a == <<" ">> \o url_a
RegistryUrls == {url_a, url_a_sp, sp_url_a, url_a_csv}

InitRegistry ==
    /\ uploaded_docs = <<>>
    /\ chroma_db = <<>>
    /\ saved_urls = <<>>
    /\ conversations = <<>>
    /\ csv_agent_service = [current_agent |-> None, current_csv_path |-> None]
    /\ resp = [op |-> "none", url |-> <<>>, before |-> <<>>, documents |-> <<>>]
    /\ uploads_ok = {}
    /\ created = {}
    /\ append_run = NoRun
    /\ names = <<>>
    /\ csv_database = <<>>
    /\ sql_agent_service = SQLAgentService
    /\ requests = NoRequests

save_url_call ==
    \E url \in RegistryUrls :
        /\ Len(saved_urls) < MaxUrls
        /\ saved_urls' = save_url(saved_urls, url)
        /\ resp' = [op |-> "save_url", url |-> url, before |-> saved_urls,
                    documents |-> <<>>]
        /\ UNCHANGED <<uploaded_docs, chroma_db, conversations, csv_agent_service,
                       uploads_ok, created, append_run, names, requests, csv_database,
                       sql_agent_service>>

\* FileManager.get_all_documents reads the registry
get_all_documents_call ==
    /\ resp' = [op |-> "get_all_documents", url |-> <<>>, before |-> saved_urls,
                documents |-> get_all_documents(uploaded_docs, saved_urls)]
    /\ UNCHANGED <<uploaded_docs, chroma_db, saved_urls, conversations,
                   csv_agent_service, uploads_ok, created, append_run, names, requests,
                   csv_database, sql_agent_service>>

NextRegistry == save_url_call \/ get_all_documents_call

SpecRegistry == InitRegistry /\ [][NextRegistry]_vars

(***************************************************************************)
(* URL uploads with addresses as the clients send them, and the listing of *)
(* the documents (routes/upload.py: upload_url, list_files).               *)
(***************************************************************************)
UrlDocNames == {URL_TAG_SP \o url_a, URL_TAG_SP \o url_a_sp}

InitUrls ==
    /\ uploaded_docs = <<>>
    /\ chroma_db = <<>>
    /\ saved_urls = <<>>
    /\ conversations = <<>>
    /\ csv_agent_service = [current_agent |-> None, current_csv_path |-> None]
    /\ resp = Response("none", <<>>, <<>>)
    /\ uploads_ok = {}
    /\ created = {}
    /\ append_run = NoRun
    /\ csv_database = <<>>
    /\ sql_agent_service = SQLAgentService
    /\ requests = NoRequests
    /\ names = [d \in UrlDocNames |-> [collection_name |-> get_collection_name(d),
                                       document_type |-> get_document_type(d)]]

list_files ==
    /\ resp' = [Response("list_files", <<>>, <<>>) EXCEPT
                   !.status = 200,
                   !.files_available = get_all_documents(uploaded_docs, saved_urls)]
    /\ UNCHANGED <<uploaded_docs, chroma_db, saved_urls, conversations,
                   csv_agent_service, uploads_ok, created, append_run, names, requests,
                   csv_database, sql_agent_service>>

NextUrls == upload_url \/ list_files

SpecUrls == InitUrls /\ [][NextUrls]_vars

(***************************************************************************)
(* Queries for one (collection key, session) handled at the same time: the *)
(* host runs their memory steps (routes/query.py: the two save_message     *)
(* calls, each a load_history followed by a save_history) in any order.    *)
(***************************************************************************)
\* queries in flight
MaxRequests == 2

race_question(r) == <<"q", Digits[r + 1]>>
race_answer(r) == <<"a", Digits[r + 1]>>
race_file == get_memory_file_path(key_report, sess_1)

\* another query is between its first read and its last write
in_flight_other(r) ==
    \E o \in DOMAIN requests.at :
        o # r /\ requests.at[o].pc \notin {"load_user", "done"}

race_unchanged ==
    UNCHANGED <<uploaded_docs, chroma_db, saved_urls, csv_agent_service, resp,
                uploads_ok, created, append_run, names, csv_database,
                sql_agent_service>>

\* a query reaches its first save_message
request_start ==
    \E r \in 1..MaxRequests :
        /\ r \notin DOMAIN requests.at
        /\ requests' = [requests EXCEPT
                           !.at = [o \in DOMAIN requests.at \cup {r} |->
                                      IF o = r
                                      THEN [pc |-> "load_user", messages |-> <<>>]
                                      ELSE requests.at[o]]]
        /\ UNCHANGED conversations
        /\ race_unchanged

\* add_message: messages = self.load_history()
request_load ==
    \E r \in DOMAIN requests.at :
        /\ requests.at[r].pc \in {"load_user", "load_assistant"}
        /\ requests' = [at |-> [requests.at EXCEPT
                                   ![r] = [pc |-> IF @.pc = "load_user"
                                                  THEN "save_user"
                                                  ELSE "save_assistant",
                                           messages |-> load_history(conversations,
                                                                     race_file)]],
                        overlapped |-> requests.overlapped \/ in_flight_other(r)]
        /\ UNCHANGED conversations
        /\ race_unchanged

\* add_message: messages.append(message); self.save_history(messages)
request_save ==
    \E r \in DOMAIN requests.at :
        /\ requests.at[r].pc \in {"save_user", "save_assistant"}
        /\ conversations' =
              IF requests.at[r].pc = "save_user"
              THEN add_message_save(conversations, race_file, requests.at[r].messages,
                                    "user", race_question(r), <<>>, "ok").conv
              ELSE add_message_save(conversations, race_file, requests.at[r].messages,
                                    "assistant", race_answer(r), <<>>, "ok").conv
        /\ requests' = [at |-> [requests.at EXCEPT
                                   ![r] = [pc |-> IF @.pc = "save_user"
                                                  THEN "load_assistant"
                                                  ELSE "done",
                                           messages |-> <<>>]],
                        overlapped |-> requests.overlapped \/ in_flight_other(r)]
        /\ race_unchanged

NextRace == request_start \/ request_load \/ request_save

SpecRace == InitMemory /\ [][NextRace]_vars

(***************************************************************************)
(* The chunker driven directly.  A Document is [page_content, metadata];   *)
(* metadata is a dictionary (a function from its keys).  The text splitter *)
(* is RecursiveCharacterTextSplitter(chunk_size, chunk_overlap) on texts   *)
(* without separators: pieces of chunk_size characters, each starting with *)
(* the last chunk_overlap characters of the one before; its                *)
(* split_documents gives one Document per piece, with a copy of the        *)
(* metadata of the document the piece was cut from.  The field segment of  *)
(* a chunk is not a field of the program: it records the position of that  *)
(* document in the input.                                                  *)
(***************************************************************************)
\* characters per chunk (2000 in the program, scaled)
chunk_size ==
    3
\* characters shared by consecutive chunks (300 in the program, scaled)
chunk_overlap ==
    1
\* longest input list of split_documents
MaxSegments ==
    2

RECURSIVE split_text(_)
split_text(text) ==
    IF Len(text) = 0 THEN <<>>
    ELSE IF Len(text) <= chunk_size THEN <<text>>
    ELSE <<SubSeq(text, 1, chunk_size)>>
             \o split_text(SubSeq(text, chunk_size - chunk_overlap + 1, Len(text)))

RECURSIVE create_documents(_, _)
create_documents(documents, i) ==
    IF i > Len(documents) THEN <<>>
    ELSE LET pieces == split_text(documents[i].page_content)
         IN [k \in 1..Len(pieces) |->
                [page_content |-> pieces[k], metadata |-> documents[i].metadata,
                 segment |-> i]]
            \o create_documents(documents, i + 1)

text_splitter_split_documents(documents) == create_documents(documents, 1)

\* chunk.metadata[key] = value
set_item(metadata, key, value) ==
    [k \in DOMAIN metadata \cup {key} |-> IF k = key THEN value ELSE metadata[k]]

\* variant: the chunk index counts the chunks of each input document
split_documents_per_segment(documents) ==
    LET chunks == text_splitter_split_documents(documents)
        first(i) == CHOOSE k \in 1..i : /\ chunks[k].segment = chunks[i].segment
                                        /\ \A j \in 1..(k - 1) :
                                               chunks[j].segment # chunks[i].segment
    IN [i \in 1..Len(chunks) |->
           [chunks[i] EXCEPT !.metadata = set_item(@, "chunk_index", i - first(i))]]

split_documents(documents) ==
    LET chunks == text_splitter_split_documents(documents)
    IN [i \in 1..Len(chunks) |->
           [chunks[i] EXCEPT !.metadata = set_item(@, "chunk_index", i - 1)]]

SplitTexts == {<<>>, <<"a">>, <<"a", "b", "c">>, <<"a", "b", "c", "d">>,
               <<"a", "b", "c", "d", "e">>, <<"a", "b", "c", "d", "e", "f", "g">>}
\* what the loaders put into the metadata; the last is a chunk split again
SplitMetadata ==
    {[source |-> report_pdf, type |-> "pdf", page |-> 0],
     [source |-> report_pdf, type |-> "pdf", page |-> 1],
     [source |-> report_txt, type |-> "txt"],
     [source |-> report_txt, type |-> "txt", chunk_index |-> 5]}
SplitDocuments == [page_content : SplitTexts, metadata : SplitMetadata]
SplitInputs == UNION {[1..n -> SplitDocuments] : n \in 0..MaxSegments}

SplitResponse(op, documents, chunks) ==
    [op |-> op, documents |-> documents, chunks |-> chunks]

InitSplit ==
    /\ uploaded_docs = <<>>
    /\ chroma_db = <<>>
    /\ saved_urls = <<>>
    /\ conversations = <<>>
    /\ csv_agent_service = [current_agent |-> None, current_csv_path |-> None]
    /\ \E documents \in SplitInputs : resp = SplitResponse("none", documents, <<>>)
    /\ uploads_ok = {}
    /\ created = {}
    /\ append_run = NoRun
    /\ names = <<>>
    /\ csv_database = <<>>
    /\ sql_agent_service = SQLAgentService
    /\ requests = NoRequests

split_documents_call ==
    LET documents == resp.documents
    IN  /\ resp.op = "none"
        /\ resp' = SplitResponse("split_documents", documents, split_documents(documents))
        /\ UNCHANGED <<uploaded_docs, chroma_db, saved_urls, conversations,
                       csv_agent_service, uploads_ok, created, append_run, names,
                       csv_database, sql_agent_service, requests>>

NextSplit == split_documents_call

SpecSplit == InitSplit /\ [][NextSplit]_vars

(***************************************************************************)
(* Properties of the routing of a query (Spec).                            *)
(***************************************************************************)
has_csv_extension(doc_name) ==
    ~startswith(doc_name, URL_TAG) /\ lower(splitext(doc_name)[2]) = EXT_CSV

(* C1: every query whose selected_file is a file name with extension .csv, *)
(* in any letter case, takes the tabular (CSV agent) branch of             *)
(* query_document and never the vector-retrieval branch.                   *)
C1_CsvTakesTabularBranch ==
    (resp.op = "query" /\ has_csv_extension(resp.doc)) => resp.branch = "csv"

(* C2: every query whose selected_file starts with the [URL] tag takes the *)
(* vector-retrieval branch whatever the rest of the name is, an address    *)
(* ending in .csv included; the tabular branch and its URL-rejection error *)
(* (400) are never reached for it.                                         *)
C2_UrlTakesVectorBranch ==
    (resp.op = "query" /\ startswith(resp.doc, URL_TAG))
        => (resp.branch = "rag" /\ resp.status # 400)

C2_UrlCsvAnswered ==
    /\ resp.op = "query"
    /\ resp.doc = URL_TAG_SP \o url_a_csv
    /\ resp.branch = "rag"
    /\ resp.status = 200

(***************************************************************************)
(* Properties of the collection key (Spec).                                *)
(***************************************************************************)
\* the normalization as documented: the extension (what follows the last
\* dot, with the dot) is stripped, a character that is not alphanumeric
\* becomes an underscore, letters are lower-cased
documented_normalization(file_name) ==
    LET dot == rfind(file_name, ".")
        root == IF dot = 0 THEN file_name ELSE SubSeq(file_name, 1, dot - 1)
    IN [i \in 1..Len(root) |->
          IF isalnum(root[i]) THEN lower_char(root[i]) ELSE "_"]

(* C3: for every file name that is not [URL]-tagged, get_collection_name   *)
(* returns the name with its extension stripped, whitespace and            *)
(* punctuation turned into underscores, lower-cased and restricted to      *)
(* alphanumerics and underscore; "My Report.PDF" yields "my_report".       *)
C3_DocumentedNormalization ==
    (resp.op # "none" /\ ~startswith(resp.doc, URL_TAG))
        => collection_name_of(resp.doc) = documented_normalization(resp.doc)

\* hashlib.md5(address.encode()).hexdigest()[:16] of the addresses of Urls
md5_16 ==
    (url_a :> <<"b", "1", "a", "3", "6", "c", "a", "5", "e", "8", "9", "b", "e", "1", "8", "9">>) @@
    (url_a_csv :> <<"a", "2", "e", "c", "c", "f", "7", "f", "6", "8", "f", "c", "e", "5", "3", "a">>) @@
    (url_bad :> <<"d", "7", "9", "d", "8", "d", "2", "f", "2", "a", "6", "d", "2", "a", "8", "d">>)

LowerHexChars == {HexDigits[i] : i \in 1..16}

(* C4: for every [URL]-tagged document name get_collection_name returns,   *)
(* on every call, "url_" followed by exactly 16 lower-case hexadecimal     *)
(* characters, the first 16 of the MD5 hex digest of the address.          *)
C4_UrlKeyFormat ==
    (resp.op # "none" /\ startswith(resp.doc, URL_TAG))
        => LET key == collection_name_of(resp.doc)
           IN /\ Len(key) = 20
              /\ SubSeq(key, 1, 4) = URL_PREFIX
              /\ \A i \in 5..20 : key[i] \in LowerHexChars
              /\ SubSeq(key, 5, 20) = md5_16[get_source_path(resp.doc)]

C4_UrlKeyUsed ==
    /\ resp.op = "upload_url"
    /\ resp.status = 200
    /\ resp.doc = URL_TAG_SP \o url_a
    /\ resp.collection = <<"u", "r", "l", "_", "b", "1", "a", "3", "6", "c", "a", "5", "e", "8", "9", "b", "e", "1", "8", "9">>

(* C5: get_collection_name is deterministic and does not collide: any two  *)
(* distinct document names, such as one base name with two extensions or   *)
(* names differing only in case, spaces, hyphens or punctuation, are       *)
(* mapped to distinct collection keys.                                     *)
C5_NoCollision ==
    resp.op # "none"
        => \A d \in DOMAIN names \ {resp.doc} :
              collection_name_of(d) # collection_name_of(resp.doc)

\* a file name in normal form: a stem of lower-case letters, digits and
\* underscores, followed by one of the four stripped extensions
normal_form(doc_name) ==
    LET root == splitext(doc_name)[1]
        ext == splitext(doc_name)[2]
    IN /\ ~startswith(doc_name, URL_TAG)
       /\ ext \in {EXT_PDF, EXT_DOCX, EXT_DOC, EXT_TXT}
       /\ root # <<>>
       /\ \A i \in 1..Len(root) :
              root[i] = "_" \/ (isalnum(root[i]) /\ lower_char(root[i]) = root[i])

(* C5, as it holds: the key of a file name in normal form is its stem, so  *)
(* two file names in normal form get distinct collection keys exactly when *)
(* their stems differ (and the same key when only the extensions differ).  *)
C5_NormalFormStems ==
    resp.op # "none"
        => \A d \in DOMAIN names \ {resp.doc} :
              (normal_form(d) /\ normal_form(resp.doc))
                  => /\ collection_name_of(resp.doc) = splitext(resp.doc)[1]
                     /\ (collection_name_of(d) # collection_name_of(resp.doc))
                            <=> (splitext(d)[1] # splitext(resp.doc)[1])

C5_DistinctStemsHandled ==
    /\ resp.op = "upload_file"
    /\ resp.doc = report2_docx
    /\ report_pdf \in uploads_ok
    /\ collection_name_of(report_pdf) # resp.collection

(***************************************************************************)
(* Properties of ingestion (Spec).                                         *)
(***************************************************************************)
\* an embedding collection, with its index, is stored under the key
has_collection(db, collection_name) ==
    collection_name \in DOMAIN db /\ db[collection_name].holds = "index"

(* C6: ingestion is idempotent: once an upload of a document has           *)
(* succeeded, every later upload of the same document makes no extraction, *)
(* chunking or embedding call, leaves the embedding collections unchanged  *)
(* and reports embeddings_created = false, and one embedding collection    *)
(* exists for its key.                                                     *)
C6_IdempotentIngestion ==
    [][(resp'.op \in {"upload_file", "upload_url"} /\ resp'.doc \in uploads_ok)
          => /\ resp'.status = 200
             /\ resp'.calls = <<>>
             /\ resp'.embeddings_created = FALSE
             /\ chroma_db' = chroma_db
             /\ has_collection(chroma_db', resp'.collection)]_vars

(***************************************************************************)
(* Properties of the memory records.                                       *)
(***************************************************************************)
(* C7: when messages m1..mn are appended one after the other with          *)
(* save_message / add_message to a record that was absent, a following     *)
(* load returns exactly [m1, ..., mn] in that order, each with its role    *)
(* and content (SpecMemory).                                               *)
C7_AppendsThenLoad ==
    append_run.active
        => LET history == load_memory(conversations, append_run.collection,
                                      append_run.session_id)
           IN /\ Len(history) = Len(append_run.messages)
              /\ \A i \in 1..Len(history) :
                    /\ history[i].role = append_run.messages[i].role
                    /\ history[i].content = append_run.messages[i].content

C7_ThreeAppended ==
    /\ append_run.active
    /\ Len(append_run.messages) = 3
    /\ append_run.messages[1] # append_run.messages[2]
    /\ append_run.messages[3].content = msg_quoted.content
    /\ Len(load_memory(conversations, append_run.collection,
                       append_run.session_id)) = 3

C9_IndependentRecords ==
    [][\A collection_name \in MemKeys, session_id \in MemSessions :
          <<collection_name, session_id>> # <<resp'.collection, resp'.session_id>>
             => load_memory(conversations', collection_name, session_id)
                    = load_memory(conversations, collection_name, session_id)]_vars

(* C10: a query for a document whose collection key has no embedding       *)
(* collection (no upload created one) ends with a not-found (404)          *)
(* response, and no memory record is created or changed by it (Spec).      *)
C10_QueryWithoutCollection ==
    [][(resp'.op = "query" /\ resp'.collection \notin created)
          => /\ resp'.status = 404
             /\ conversations' = conversations]_vars


(***************************************************************************)
(* Properties of a query past its checks.                                  *)
(***************************************************************************)
\* the record of (key, session) after the step is the record before it
\* followed by the user message with the question and the assistant message
\* with the answer
appended_two(conv, conv2, r) ==
    LET before == load_memory(conv, r.collection, r.session_id)
        after == load_memory(conv2, r.collection, r.session_id)
    IN /\ Len(after) = Len(before) + 2
       /\ SubSeq(after, 1, Len(before)) = before
       /\ after[Len(before) + 1].role = "user"
       /\ after[Len(before) + 1].content = r.question
       /\ after[Len(before) + 2].role = "assistant"
       /\ after[Len(before) + 2].content = r.answer

(* C11 as stated: every query that gets past the existence checks (no 400  *)
(* or 404) appends to the record of (key, session) exactly two messages,   *)
(* the user message with the question and then the assistant message with  *)
(* the answer, unconditionally (SpecWrites).                               *)
C11_PastChecksAppendsTwo ==
    [][(resp'.op = "query" /\ resp'.status \notin {400, 404})
          => appended_two(conversations, conversations', resp')]_vars

(* C11: every query that is answered (200) and whose two memory writes     *)
(* succeed appends to the record of (key, session) exactly two messages,   *)
(* first the user message with the question and then the assistant message *)
(* with the answer, also when the answer is the error text of a failed     *)
(* generation; a query that fails after the existence checks (500) leaves  *)
(* every record as it was (SpecWrites).                                    *)
C11_AnsweredAppendsTwo ==
    [][resp'.op = "query"
          => /\ (resp'.status = 200 /\ resp'.writes = <<"ok", "ok">>)
                    => appended_two(conversations, conversations', resp')
             /\ resp'.status = 500 => conversations' = conversations]_vars

C11_ErrorTextAppended ==
    /\ resp.op = "query"
    /\ resp.status = 200
    /\ resp.writes = <<"ok", "ok">>
    /\ resp.answer = ERROR_GENERATING
    /\ resp.before = 2
    /\ LET history == load_memory(conversations, resp.collection, resp.session_id)
       IN /\ Len(history) = 4
          /\ history[3] = [role |-> "user", content |-> resp.question]
          /\ history[4].role = "assistant"
          /\ history[4].content = ERROR_GENERATING

(* C20: a failure while writing a memory record is swallowed by the memory *)
(* layer: save_history and add_message return normally, and the enclosing  *)
(* query still returns its answer response (200 with the answer) instead   *)
(* of failing (SpecWrites).                                                *)
C20_WriteFailureSwallowed ==
    [][(resp'.op = "query" /\ resp'.engine = "returned")
          => LET memory_file == get_memory_file_path(resp'.collection,
                                                     resp'.session_id)
             IN /\ \A write \in {"open_fail", "dump_fail"} :
                      /\ ~save_history(conversations, memory_file, <<>>, write).raised
                      /\ ~add_message(conversations, memory_file, "user",
                                      resp'.question, <<>>, write).raised
                /\ resp'.status = 200
                /\ resp'.answer # <<>>]_vars

C20_AnsweredWithFailedWrites ==
    /\ resp.op = "query"
    /\ resp.status = 200
    /\ resp.writes = <<"open_fail", "open_fail">>
    /\ resp.answer \in Answers
    /\ resp.messages = resp.before

(***************************************************************************)
(* Properties of the retrieval-augmented engine.                           *)
(***************************************************************************)
(* C12: the engine never raises to its caller because of a failure while   *)
(* answering: whenever a query calls it on an initialized chain over an    *)
(* indexed collection it returns normally, with the model's answer or the  *)
(* formatted error message as the answer; it raises only for a pipeline    *)
(* whose chain was not initialized (Spec).                                 *)
C12_EngineNeverRaises ==
    /\ \A q \in Questions, a \in Answers, outcome \in QueryOutcomes :
          rag_query(None, chroma_db, q, <<>>, outcome, a).raised
    /\ (resp.op = "query" /\ resp.engine # "none"
           /\ has_collection(chroma_db, resp.collection))
          => /\ resp.engine = "returned"
             /\ resp.status = 200
             /\ resp.answer \in Answers \cup {ERROR_GENERATING}

(* C13: retrieval and prompt construction are history-agnostic: the        *)
(* retrieval request, the retrieved segments and the model prompt of an    *)
(* answered query are those that get_response issues for the same         *)
(* question on the same index with any other chat_history (SpecWrites).    *)
C13_HistoryAgnostic ==
    [][(resp'.op = "query" /\ resp'.status = 200)
          => LET actual == load_memory(conversations, resp'.collection,
                                       resp'.session_id)
             IN \A chat_history \in MemHistories \cup {<<>>} :
                   chat_history # actual
                      => LET g == get_response(chroma_db', resp'.collection,
                                               resp'.question, chat_history, "ok",
                                               resp'.answer)
                         IN /\ g.retrieval_query = resp'.retrieval_query
                            /\ g.source_documents = resp'.context
                            /\ g.prompt = resp'.prompt]_vars

C13_AnsweredWithHistory ==
    /\ resp.op = "query"
    /\ resp.status = 200
    /\ resp.before = 2
    /\ resp.context # <<>>
    /\ resp.retrieval_query = resp.question
    /\ resp.prompt = [context |-> format_docs(resp.context),
                      question |-> resp.question]

(***************************************************************************)
(* Properties of the embedding collections.                                *)
(***************************************************************************)
(* C14: when an upload that had to create the embedding collection fails   *)
(* (extraction, chunking or the embedding call raises), the failure is     *)
(* reported to the caller (500) and check_embeddings_exist for the key is  *)
(* still false afterwards (Spec).                                          *)
C14_FailedCreationLeavesNothing ==
    [][(/\ resp'.op \in {"upload_file", "upload_url"}
        /\ ~check_embeddings_exist(chroma_db, resp'.collection)
        /\ resp'.calls # <<>>
        /\ ~resp'.embeddings_created)
          => /\ resp'.status = 500
             /\ ~check_embeddings_exist(chroma_db', resp'.collection)]_vars

(* C15: a vector-path query for a document whose source file is available  *)
(* and loadable but whose embedding collection does not exist yet creates  *)
(* the collection, loads it and answers, instead of failing (Spec).        *)
C15_QueryCreatesCollection ==
    [][(/\ resp'.op = "query"
        /\ resp'.branch = "rag"
        /\ file_exists(uploaded_docs, resp'.doc)
        /\ has_loader(document_type_of(resp'.doc))
        /\ ~check_embeddings_exist(chroma_db, resp'.collection))
          => /\ resp'.status # 404
             /\ check_embeddings_exist(chroma_db', resp'.collection)]_vars

(***************************************************************************)
(* Properties of the tabular store and its agent (SpecSql).                *)
(***************************************************************************)
(* C16 as stated: whenever a table with the target name already exists,    *)
(* load_csv_to_table returns that name without parsing the CSV and without *)
(* changing the database (SpecSql).                                        *)
C16_ExistingTableReturned ==
    [][(resp'.op = "load_csv_to_table" /\ table_exists(csv_database, resp'.target))
          => /\ ~resp'.raised
             /\ resp'.returned = resp'.target
             /\ resp'.calls = <<>>
             /\ csv_database' = csv_database]_vars

(* C16: load_csv_to_table is idempotent for a CSV file that is there:      *)
(* whenever the file exists and a table with the target name already       *)
(* exists, the call returns that name without parsing the CSV and without  *)
(* changing the database; only when the table is absent is the CSV parsed  *)
(* and inserted; a path with no file raises, whether or not the table      *)
(* exists, and changes nothing (SpecSql).                                  *)
C16_IdempotentLoad ==
    [][resp'.op = "load_csv_to_table"
          => /\ (file_exists(uploaded_docs, resp'.file)
                 /\ table_exists(csv_database, resp'.target))
                    => /\ ~resp'.raised
                       /\ resp'.returned = resp'.target
                       /\ resp'.calls = <<>>
                       /\ csv_database' = csv_database
             /\ resp'.calls # <<>>
                    => /\ file_exists(uploaded_docs, resp'.file)
                       /\ ~table_exists(csv_database, resp'.target)
             /\ (resp'.calls # <<>> /\ ~resp'.raised)
                    => /\ resp'.returned = resp'.target
                       /\ csv_database' = to_sql(csv_database, resp'.target,
                                                 uploaded_docs[resp'.file])
             /\ ~file_exists(uploaded_docs, resp'.file)
                    => /\ resp'.raised
                       /\ csv_database' = csv_database]_vars

\* a second load under the name of a table imported from another file
C16_LoadedTableKept ==
    /\ resp.op = "load_csv_to_table"
    /\ ~resp.raised
    /\ resp.calls = <<>>
    /\ resp.returned = table_sales
    /\ file_exists(uploaded_docs, resp.file)
    /\ csv_database[table_sales] # <<>>
    /\ csv_database[table_sales] # uploaded_docs[resp.file]

\* the name as documented: strip the extension, replace every
\* non-alphanumeric character with an underscore, prefix the literal token
\* if the result starts with a digit or is empty, lower-case
documented_name_of_base(base_name) ==
    LET replaced == [i \in 1..Len(base_name) |->
                        IF isalnum(base_name[i]) THEN base_name[i] ELSE "_"]
        prefixed == IF replaced = <<>> \/ isdigit(replaced[1])
                    THEN TABLE_PREFIX \o replaced
                    ELSE replaced
    IN lower(prefixed)

documented_table_name(filename) == documented_name_of_base(splitext(filename)[1])

TableNameChars == Range(LowerCase) \cup Range(Digits) \cup {"_"}

(* C17 as stated: for every filename, sanitize_table_name returns the      *)
(* result of: strip the extension, replace every non-alphanumeric          *)
(* character with an underscore, prefix a literal token if the result      *)
(* starts with a digit or is empty, lower-case (SpecSql).                  *)
C17_DocumentedTableName ==
    resp.op = "get_table_name_for_file"
        => resp.returned = documented_table_name(resp.file)

(* C17: for every filename the name sanitize_table_name returns is made of *)
(* lower-case letters, digits and underscores, is never empty and never    *)
(* starts with a digit; it is the documented result (strip the extension,  *)
(* replace, prefix, lower-case) whenever the name without its extension    *)
(* neither starts nor ends with a non-alphanumeric character, and          *)
(* otherwise the documented result for that name with its leading and      *)
(* trailing non-alphanumeric characters removed (SpecSql).                 *)
C17_SafeTableName ==
    resp.op = "get_table_name_for_file"
        => LET base_name == splitext(resp.file)[1]
               keep == {i \in 1..Len(base_name) : isalnum(base_name[i])}
               trimmed == IF keep = {} THEN <<>>
                          ELSE SubSeq(base_name,
                                      CHOOSE i \in keep : \A j \in keep : i <= j,
                                      CHOOSE i \in keep : \A j \in keep : j <= i)
           IN /\ resp.returned # <<>>
              /\ ~isdigit(resp.returned[1])
              /\ Range(resp.returned) \subseteq TableNameChars
              /\ resp.returned = documented_name_of_base(trimmed)
              /\ (keep # {} /\ 1 \in keep /\ Len(base_name) \in keep)
                    => resp.returned = documented_table_name(resp.file)

\* a name that gets the prefix only because its leading characters are dropped
C17_TrimmedAndPrefixed ==
    /\ resp.op = "get_table_name_for_file"
    /\ resp.file = paren_1_data_csv
    /\ startswith(resp.returned, TABLE_PREFIX)
    /\ resp.returned # documented_table_name(resp.file)

(* C18: SQLAgentService.query never raises to its caller: when the table   *)
(* does not exist it returns a structured answer with error 'Table not     *)
(* found' without building or invoking an agent, and when checking the     *)
(* table, binding the agent or running it raises, it returns an answer     *)
(* whose text is an error text and whose error field is set (SpecSql).     *)
C18_QueryNeverRaises ==
    [][resp'.op = "query"
          => /\ ~resp'.raised
             /\ resp'.result.table = resp'.target
             /\ (resp'.outcome # "exists_fail"
                 /\ ~table_exists(csv_database, resp'.target))
                    => /\ resp'.result.error = TABLE_NOT_FOUND
                       /\ resp'.invoked = None
                       /\ sql_agent_service' = sql_agent_service
             /\ (resp'.outcome = "exists_fail"
                 \/ (table_exists(csv_database, resp'.target)
                     /\ get_agent_for_table(sql_agent_service, resp'.target,
                                            resp'.outcome).raised)
                 \/ (table_exists(csv_database, resp'.target)
                     /\ resp'.outcome = "invoke_fail"))
                    => /\ startswith(resp'.result.answer, ERROR_SQL)
                       /\ resp'.result.error # None
             /\ resp'.result.error = None
                    => /\ resp'.result.answer \in Answers
                       /\ resp'.invoked = resp'.target]_vars

\* the agent of an existing table is bound and its run fails
C18_AgentFailureAnswered ==
    /\ resp.op = "query"
    /\ resp.outcome = "invoke_fail"
    /\ table_exists(csv_database, resp.target)
    /\ resp.invoked = resp.target
    /\ ~resp.raised
    /\ resp.result.error # None
    /\ startswith(resp.result.answer, ERROR_SQL)

(***************************************************************************)
(* Properties of the URL registry (SpecRegistry).                          *)
(***************************************************************************)
(* C19: the URL registry is append-only and free of duplicates: after any  *)
(* sequence of save_url calls no URL appears on more than one line, and    *)
(* the lines already present are never removed or reordered                *)
(* (SpecRegistry).                                                         *)
C19_AppendOnlyNoDuplicates ==
    [][resp'.op = "save_url"
          => /\ \A i, j \in 1..Len(saved_urls') :
                   i # j => saved_urls'[i] # saved_urls'[j]
             /\ Len(saved_urls') >= Len(saved_urls)
             /\ SubSeq(saved_urls', 1, Len(saved_urls)) = saved_urls]_vars

(* C28: for every n >= 0 and every stored history h,                       *)
(* get_recent_messages(n) returns the last min(n, len(h)) messages of h in *)
(* their stored order, so it never returns more than n messages            *)
(* (SpecRecent).                                                           *)
C28_RecentMessages ==
    resp.op = "get_recent_messages"
        => LET h == load_memory(conversations, resp.collection, resp.session_id)
               k == IF resp.n < Len(h) THEN resp.n ELSE Len(h)
           IN /\ Len(resp.recent) = k
              /\ resp.recent = SubSeq(h, Len(h) - k + 1, Len(h))
              /\ Len(resp.recent) <= resp.n

(***************************************************************************)
(* Properties of queries handled at the same time (SpecRace).              *)
(***************************************************************************)
all_done ==
    /\ DOMAIN requests.at = 1..MaxRequests
    /\ \A r \in 1..MaxRequests : requests.at[r].pc = "done"

\* the record holds the user and the assistant message of query r
holds_messages_of(r) ==
    LET history == load_history(conversations, race_file)
    IN /\ \E i \in 1..Len(history) :
             history[i] = [role |-> "user", content |-> race_question(r)]
       /\ \E i \in 1..Len(history) :
             history[i] = [role |-> "assistant", content |-> race_answer(r)]

(* C21 as stated: when queries for the same (collection key, session) are  *)
(* processed with their memory reads and writes interleaved, then after    *)
(* all have finished the record contains the user and assistant messages   *)
(* of each of them (SpecRace).                                             *)
C21_NoMessageLost ==
    all_done => \A r \in 1..MaxRequests : holds_messages_of(r)

(* C21: when the queries for one (collection key, session) are processed   *)
(* one after the other, each finishing its memory reads and writes before  *)
(* the next starts them, the record contains after the last of them the    *)
(* user and assistant messages of every query, two messages per query      *)
(* (SpecRace).                                                             *)
C21_SerialKeepsAll ==
    (all_done /\ ~requests.overlapped)
        => /\ \A r \in 1..MaxRequests : holds_messages_of(r)
           /\ Len(load_history(conversations, race_file)) = 2 * MaxRequests

C21_SerialDone ==
    /\ all_done
    /\ ~requests.overlapped
    /\ load_history(conversations, race_file)[1].content = race_question(2)
    /\ load_history(conversations, race_file)[4].content = race_answer(1)

\* C22: over any sequence of tabular queries, the agent that executes a
\* question for a target (table name or CSV path) was bound to that target, a
\* query that is executed builds a new agent exactly when its target differs
\* from the one recorded as current before the call, and the recorded current
\* target of either service always names the target of its current agent.
C22_AgentReuse ==
    [][/\ (resp'.op = "query" /\ resp'.invoked # None)
            => /\ resp'.invoked = resp'.target
               /\ resp'.built <=> (sql_agent_service.current_table_name # resp'.target)
       /\ (resp'.op = "csv_query" /\ resp'.invoked # None)
            => /\ resp'.invoked = resp'.target
               /\ resp'.built <=> (csv_agent_service.current_csv_path # resp'.target)
       /\ sql_agent_service'.current_agent = sql_agent_service'.current_table_name
       /\ csv_agent_service'.current_agent = csv_agent_service'.current_csv_path]_vars

\* a question answered by the retained agent after the creation of an agent
\* for another table had failed
C22_RetainedAgentAnswers ==
    /\ resp.op = "query"
    /\ resp.invoked = resp.target
    /\ ~resp.built
    /\ resp.result.error = None
    /\ sql_agent_service.db # None
    /\ sql_agent_service.db # sql_agent_service.current_table_name

\* the entries of a metadata dictionary other than chunk_index
without_chunk_index(metadata) ==
    [k \in DOMAIN metadata \ {"chunk_index"} |-> metadata[k]]

\* C23: split_documents gives every output chunk the metadata of the segment
\* it was cut from plus a chunk_index, and the chunk_index values are exactly
\* 0, 1, ..., n-1 in output order over the whole returned list, counted across
\* all input segments (SpecSplit).
C23_ChunkIndex ==
    resp.op = "split_documents"
        => \A i \in 1..Len(resp.chunks) :
               LET chunk == resp.chunks[i]
                   cut_from == resp.documents[chunk.segment]
               IN /\ chunk.metadata["chunk_index"] = i - 1
                  /\ DOMAIN chunk.metadata = DOMAIN cut_from.metadata \cup {"chunk_index"}
                  /\ without_chunk_index(chunk.metadata)
                         = without_chunk_index(cut_from.metadata)

\* two segments with different metadata, of several chunks each
C23_TwoSegmentsChunked ==
    /\ resp.op = "split_documents"
    /\ Len(resp.documents) = 2
    /\ Len(resp.chunks) = 5
    /\ resp.chunks[2].segment = 1
    /\ resp.chunks[2].metadata = set_item(resp.documents[1].metadata, "chunk_index", 1)
    /\ resp.chunks[3].segment = 2
    /\ resp.chunks[3].metadata = set_item(resp.documents[2].metadata, "chunk_index", 2)
    /\ resp.documents[1].metadata # resp.documents[2].metadata
    /\ resp.chunks[5].metadata["chunk_index"] = 4

\* C24: upload_url called with an address that starts with neither
\* 'http://' nor 'https://' is answered 400 (invalid URL), and neither the
\* embedding store nor the URL registry is changed by the call.
C24_BadSchemeRejected ==
    [][(/\ resp'.op = "upload_url"
        /\ ~startswith(url_of(resp'.doc), HTTP)
        /\ ~startswith(url_of(resp'.doc), HTTPS))
           => /\ resp'.status = 400
              /\ chroma_db' = chroma_db
              /\ saved_urls' = saved_urls]_vars

\* C25: every document whose upload returned status ok is contained in the
\* files_available list of that response and in every later
\* get_all_documents result, whatever the letter case of its extension.
C25_UploadedListed ==
    /\ (resp.op \in {"upload_file", "upload_url"} /\ resp.status = 200)
           => resp.doc \in Range(resp.files_available)
    /\ \A d \in uploads_ok : d \in Range(get_all_documents(uploaded_docs, saved_urls))

\* C26: in every reachable state, check_embeddings_exist(get_collection_name(d))
\* is true only if an embedding collection was created under exactly that key
\* by an earlier successful upload; the collections of other documents never
\* make the check true for d, also when the key derived from d is empty.
C26_CheckMeansCreated ==
    \A d \in DOMAIN names :
        check_embeddings_exist(chroma_db, collection_name_of(d))
            => collection_name_of(d) \in created

\* C27: after any sequence of successful file uploads, the embedding
\* collection used to answer queries about a document was built from the
\* content currently stored on disk under that document's name: an upload that
\* overwrites the stored file never leaves an index built from other content.
C27_IndexOfStoredContent ==
    \A d \in uploads_ok \cap DOMAIN uploaded_docs :
        LET collection_name == collection_name_of(d)
        IN (/\ collection_name \in DOMAIN chroma_db
            /\ chroma_db[collection_name].holds = "index")
               => chroma_db[collection_name].content = uploaded_docs[d]

\* C29: in every reachable state each URL listed in the URL registry has an
\* existing embedding collection under its collection key; a URL is written
\* to the registry only after its collection was created, and a failed URL
\* upload adds nothing to the registry (SpecUrls).
C29_RegisteredUrlsIndexed ==
    \A url \in Range(read_urls(saved_urls)) :
        check_embeddings_exist(chroma_db, get_collection_name(URL_TAG_SP \o url))

(* C30 as stated: for every query that returns an answer, the message      *)
(* count in the returned memory state equals the number of messages stored *)
(* for (key, session) after the query, which is the count stored before    *)
(* the query plus 2 (SpecWrites).                                          *)
C30_CountIsBeforePlusTwo ==
    [][(resp'.op = "query" /\ resp'.status = 200)
          => /\ resp'.messages
                    = Len(load_memory(conversations', resp'.collection, resp'.session_id))
             /\ resp'.messages
                    = Len(load_memory(conversations, resp'.collection, resp'.session_id))
                          + 2]_vars

(* C30: for every query that returns an answer, the message count in the   *)
(* returned memory state equals the number of messages stored for (key,    *)
(* session) after the query; it is the count stored before the query plus  *)
(* 2 when both memory writes of the query succeed (SpecWrites).            *)
C30_CountIsStoredCount ==
    [][(resp'.op = "query" /\ resp'.status = 200)
          => /\ resp'.messages
                    = Len(load_memory(conversations', resp'.collection, resp'.session_id))
             /\ resp'.writes = <<"ok", "ok">>
                    => resp'.messages
                           = Len(load_memory(conversations, resp'.collection,
                                             resp'.session_id)) + 2]_vars

\* the second exchange of a conversation answered by the model and stored
C30_SecondExchangeCounted ==
    /\ resp.op = "query"
    /\ resp.status = 200
    /\ resp.writes = <<"ok", "ok">>
    /\ resp.answer \in Answers
    /\ resp.before = 2
    /\ resp.messages = 4
    /\ Len(load_memory(conversations, resp.collection, resp.session_id)) = 4
====
